---- MODULE Spec2Model ----
(***************************************************************************)
(* Verification model of the Dutch Housing Analytics pipeline:             *)
(*   - CBSAPIClient._make_request      (retry / backoff)                   *)
(*   - CBSAPIClient.get_data_paginated (pagination)                        *)
(*   - CBSAPIClient.get_all_dimensions (dimension discovery)               *)
(*   - cleanup_old_extractions         (retention of raw files)            *)
(*   - HousingDataExtractor.extract_*  (extraction of the two datasets)    *)
(*   - HousingDataTransformer.transform_doorlooptijden (join + metrics)    *)
(* Every component has its own specification; the variables of the other   *)
(* components stay at their initial values in it.                          *)
(***************************************************************************)
EXTENDS Integers, Sequences, FiniteSets, TLC

VARIABLES
    \* ---- CBSAPIClient._make_request ----
    max_retries,    \* self.max_retries
    req_pc,         \* "idle" | "calling" | "returned" | "raised"
    retry_count,    \* the retry_count argument of the current recursion level
    resps,          \* the responses session.get has produced so far, in order
    sleeps,         \* the arguments of every time.sleep call so far, in order
    req_result,     \* the value returned (response.json())
    req_exc,        \* the exception raised to the caller
    \* ---- CBSAPIClient.get_data_paginated ----
    batch_size,     \* self.batch_size
    max_rows,       \* <<>> for None, <<m>> for the integer m
    server_rows,    \* number of rows the server holds for the filter
    pg_pc,          \* "idle" | "loop" | "done" | "raised"
    all_data,       \* list of batches, each a sequence of row numbers
    skip,
    total_fetched,
    page_log,       \* the (top, skip) of every get_data call, in order
    result_df,      \* the DataFrame returned
    \* ---- CBSAPIClient.get_all_dimensions ----
    endpoints,      \* the endpoint names in the table metadata, in order
    gd_pc,          \* "idle" | "info" | "loop" | "returned" | "raised"
    dim_idx,        \* number of entries of dimension_names already handled
    dimensions,     \* the dict built: dimension name -> table
    fetched,        \* every get_dimension call so far: [name, outcome]
    \* ---- cleanup_old_extractions ----
    raw_dir,        \* the files in RAW_DATA_DIR
    keep_last_n,
    cl_pc,          \* "idle" | "ready" | "done"
    removed,        \* the files unlinked by the cleanup
    \* ---- HousingDataExtractor.extract_* ----
    ex_dataset,     \* "doorlooptijden" | "woningen_pijplijn": the method called
    ex_pc,          \* "idle" | "dims" | "save_dims" | "fact" | "returned" | "raised"
    ex_timestamp,   \* self.timestamp
    ex_dimensions,  \* the dict get_all_dimensions returned
    ex_saved,       \* number of dimension tables already saved
    ex_fact,        \* fact_data
    ex_exc,         \* the exception the method raised
    ex_api_failed,  \* whether some API request of this call has failed
    ex_written,     \* the files written by this call, in order
    ex_granularity, \* <dataset>_CONFIG['perioden']['granularity']
    ex_filter,      \* the period filter the method built: <<>> before, else <<filter>>
    \* ---- extract_cbs_housing.main ----
    em_pc,          \* "idle" | "prompt" | "cancelled" | "extract" | "complete" |
                    \* "interrupted" | "raised"
    em_done,        \* the datasets whose extraction method has returned, in order
    em_cleanup,     \* whether cleanup_old_extractions has been invoked
    em_exc,         \* the exception main raised to its caller
    em_log,         \* the warnings and errors main logged, in order
    \* ---- HousingDataTransformer.transform_doorlooptijden ----
    fact_file,      \* the latest raw fact file: <<>> if none matches, else <<table>>
    dim_files,      \* per dimension: <<>> if no file matches, else <<rows>>
    tr_pc,          \* "idle" | "start" | "dims" | "join" | "parse" | "validate" |
                    \* "derive" | "summary" | "returned" | "raised"
    tr_dims,        \* the dict load_dimensions returned
    df,             \* the working DataFrame: [cols, rows]
    tr_exc,         \* the exception raised
    tr_warnings,    \* the warnings logged
    \* ---- transform_housing_data.main / save_transformed_data ----
    processed_dir,  \* PROCESSED_DATA_DIR: file name -> the table it holds
    tm_pc,          \* "idle" | "transform" | "save" | "report" | "returned" | "raised"
    tm_timestamp,   \* transformer.timestamp
    tm_exc,         \* the exception main raised to its caller
    tm_log,         \* the logger.error lines of main, in order
    \* ---- HousingStatisticalAnalyzer ----
    an_pc,          \* "idle" | "load" | the analysis about to run | "returned" | "raised"
    df_doorloop,    \* self.df_doorloop: <<>> for None, else <<table>>
    df_pijplijn,    \* self.df_pijplijn
    results_dir,    \* RESULTS_DIR: file name -> the records it holds
    an_started,     \* the analyses started by this run, in order
    an_written,     \* the result files written by this run, in order
    an_exc,         \* the exception run_all_analyses raised
    an_log,         \* the warnings and errors logged, in order
    \* ---- SQLDatabaseLoader ----
    sq_raw,         \* RAW_DIR as the loader reads it: file name -> rows
    schema_files,   \* the DDL files present under sql/schema
    sq_pc,          \* "idle" | the step about to run | "returned" | "raised"
    db,             \* the database: table name -> rows
    conn_open,      \* whether self.conn is an open connection
    sq_exc,         \* the exception run raised
    sq_log,         \* the warnings and errors logged, in order
    sq_runs,        \* number of runs of the loader that have been started
    db_first        \* the database as the first run left it

reqVars == <<max_retries, req_pc, retry_count, resps, sleeps, req_result, req_exc>>
pgVars  == <<batch_size, max_rows, server_rows, pg_pc, all_data, skip,
             total_fetched, page_log, result_df>>
gdVars  == <<endpoints, gd_pc, dim_idx, dimensions, fetched>>
clVars  == <<raw_dir, keep_last_n, cl_pc, removed>>
exVars  == <<ex_dataset, ex_pc, ex_timestamp, ex_dimensions, ex_saved, ex_fact,
             ex_exc, ex_api_failed, ex_written, ex_granularity, ex_filter>>
emVars  == <<em_pc, em_done, em_cleanup, em_exc, em_log>>
trVars  == <<fact_file, dim_files, tr_pc, tr_dims, df, tr_exc, tr_warnings>>
tmVars  == <<processed_dir, tm_pc, tm_timestamp, tm_exc, tm_log>>
anVars  == <<an_pc, df_doorloop, df_pijplijn, results_dir, an_started, an_written,
             an_exc, an_log>>
sqVars  == <<sq_raw, schema_files, sq_pc, db, conn_open, sq_exc, sq_log, sq_runs,
             db_first>>
vars    == <<reqVars, pgVars, gdVars, clVars, exVars, emVars, trVars, tmVars, anVars, sqVars>>

\* what an action of one component leaves alone
othersReq == <<pgVars, gdVars, clVars, exVars, trVars, tmVars, anVars, sqVars, emVars>>
othersPg  == <<reqVars, gdVars, clVars, exVars, trVars, tmVars, anVars, sqVars, emVars>>
othersGd  == <<reqVars, pgVars, clVars, exVars, trVars, tmVars, anVars, sqVars, emVars>>
othersCl  == <<reqVars, pgVars, gdVars, exVars, trVars, tmVars, anVars, sqVars, emVars>>
othersEx  == <<reqVars, pgVars, gdVars, keep_last_n, cl_pc, removed, trVars, tmVars,
               anVars, sqVars, emVars>>
othersTr  == <<reqVars, pgVars, gdVars, clVars, exVars, tmVars, anVars, sqVars, emVars>>
othersTm  == <<reqVars, pgVars, gdVars, clVars, exVars, anVars, sqVars, emVars>>
othersAn  == <<reqVars, pgVars, gdVars, clVars, exVars, trVars, tmVars, sqVars, emVars>>
othersSq  == <<reqVars, pgVars, gdVars, clVars, exVars, trVars, tmVars, anVars, emVars>>

-----------------------------------------------------------------------------
(* Bounds of the model *)
MaxRetriesCap == 3      \* max_retries ranges over 0..MaxRetriesCap
MaxServerRows == 6      \* server_rows ranges over 0..MaxServerRows
MaxBatchSize  == 3      \* batch_size ranges over 1..MaxBatchSize
MaxRowsCap    == 7      \* max_rows ranges over None, 0..MaxRowsCap
MaxKeep       == 2      \* keep_last_n ranges over 0..MaxKeep
MaxFactRows   == 2      \* the raw fact table has 0..MaxFactRows rows
MaxMainRows   == 1      \* the raw fact table of a run of main has 0..MaxMainRows rows
MaxDoorloopRows == 4    \* the processed doorlooptijden table has 0..MaxDoorloopRows rows
MaxPijplijnRows == 3    \* the processed pijplijn table has 1..MaxPijplijnRows rows
MaxPageRetries == 1     \* max_retries of a paginated fetch ranges over 0..MaxPageRetries
MaxPagedRows == 3       \* server_rows of a paginated fetch ranges over 0..MaxPagedRows

(* Program constants: ODATA_CONFIG *)
retry_delay_base == 2
rate_limit_delay == 10

-----------------------------------------------------------------------------
(* Generic helpers *)
Min(a, b) == IF a < b THEN a ELSE b

CeilDiv(a, b) == (a + b - 1) \div b

Last(s) == s[Len(s)]

Front(s) == SubSeq(s, 1, Len(s) - 1)

RECURSIVE SumSeq(_)
SumSeq(s) == IF s = <<>> THEN 0 ELSE s[1] + SumSeq(Tail(s))

RECURSIVE Flatten(_)
Flatten(ss) == IF ss = <<>> THEN <<>> ELSE ss[1] \o Flatten(Tail(ss))

-----------------------------------------------------------------------------
(* Idle values of the components *)
ReqIdle ==
    /\ max_retries = 0
    /\ req_pc = "idle"
    /\ retry_count = 0
    /\ resps = <<>>
    /\ sleeps = <<>>
    /\ req_result = "none"
    /\ req_exc = [type |-> "none", status |-> 0]

PgIdle ==
    /\ batch_size = 1
    /\ max_rows = <<>>
    /\ server_rows = 0
    /\ pg_pc = "idle"
    /\ all_data = <<>>
    /\ skip = 0
    /\ total_fetched = 0
    /\ page_log = <<>>
    /\ result_df = <<>>

GdIdle ==
    /\ endpoints = <<>>
    /\ gd_pc = "idle"
    /\ dim_idx = 0
    /\ dimensions = <<>>
    /\ fetched = <<>>

ClIdle ==
    /\ raw_dir = {}
    /\ keep_last_n = 1
    /\ cl_pc = "idle"
    /\ removed = {}

ExIdle ==
    /\ ex_dataset = "doorlooptijden"
    /\ ex_pc = "idle"
    /\ ex_timestamp = <<0, 0>>
    /\ ex_dimensions = <<>>
    /\ ex_saved = 0
    /\ ex_fact = <<>>
    /\ ex_exc = "none"
    /\ ex_api_failed = FALSE
    /\ ex_written = <<>>
    /\ ex_granularity = "quarter"
    /\ ex_filter = <<>>

EmIdle ==
    /\ em_pc = "idle"
    /\ em_done = <<>>
    /\ em_cleanup = FALSE
    /\ em_exc = "none"
    /\ em_log = <<>>

TrIdle ==
    /\ fact_file = <<>>
    /\ dim_files = <<>>
    /\ tr_pc = "idle"
    /\ tr_dims = <<>>
    /\ df = [cols |-> {}, rows |-> <<>>]
    /\ tr_exc = "none"
    /\ tr_warnings = {}

TmIdle ==
    /\ processed_dir = <<>>
    /\ tm_pc = "idle"
    /\ tm_timestamp = <<0, 0>>
    /\ tm_exc = "none"
    /\ tm_log = <<>>

AnIdle ==
    /\ an_pc = "idle"
    /\ df_doorloop = <<>>
    /\ df_pijplijn = <<>>
    /\ results_dir = <<>>
    /\ an_started = <<>>
    /\ an_written = <<>>
    /\ an_exc = [type |-> "none", msg |-> "", detail |-> <<>>]
    /\ an_log = <<>>

SqIdle ==
    /\ sq_raw = <<>>
    /\ schema_files = <<>>
    /\ sq_pc = "idle"
    /\ db = <<>>
    /\ conn_open = FALSE
    /\ sq_exc = [type |-> "none", msg |-> "", detail |-> <<>>]
    /\ sq_log = <<>>
    /\ sq_runs = 0
    /\ db_first = <<>>

-----------------------------------------------------------------------------
(***************************************************************************)
(* CBSAPIClient._make_request                                              *)
(***************************************************************************)
Bodies == {"json_a", "json_b"}

\* a line of the log
LogLine(level, msg, about) == [level |-> level, msg |-> msg, about |-> about]

NoExc == [type |-> "none", status |-> 0]

HTTPError(status) == [type |-> "HTTPError", status |-> status]

TimeoutExc == [type |-> "Timeout", status |-> 0]

ConnectionErrorExc == [type |-> "ConnectionError", status |-> 0]

ErrorStatuses == {401, 404, 429, 500, 503}

Resp200(body) == [kind |-> "http", status |-> 200, body |-> body]

RespHTTP(status) == [kind |-> "http", status |-> status, body |-> "error"]

RespTimeout == [kind |-> "timeout", status |-> 0, body |-> "error"]

RespConnectionError == [kind |-> "connection", status |-> 0, body |-> "error"]

\* `retry_count < self.max_retries`
CanRetry_offbyone(rc, mr) == rc <= mr

CanRetry(rc, mr) == rc < mr

\* `wait_time = ODATA_CONFIG['retry_delay_base'] ** retry_count`
ExpBackoff_linear(rc) == retry_delay_base * rc

ExpBackoff(rc) == retry_delay_base ^ rc

\* `time.sleep(ODATA_CONFIG['rate_limit_delay'])`
RateLimitWait_exponential(rc) == retry_delay_base ^ rc

RateLimitWait(rc) == rate_limit_delay

\* `e.response.status_code == 429`
IsRateLimited(status) == status = 429

\* `e.response.status_code >= 500`
IsServerError_any(status) == status >= 400

IsServerError(status) == status >= 500

\* the retry_count argument of the recursive call: `retry_count + 1` in each
\* of the four handlers
NextRetryCount_reset(rc) == 0

NextRetryCount(rc) == rc + 1

\* One recursion level: sleep `wait`, then `return self._make_request(url, params, retry_count + 1)`
RetryAfter(r, wait) ==
    /\ resps' = Append(resps, r)
    /\ sleeps' = Append(sleeps, wait)
    /\ retry_count' = NextRetryCount(retry_count)
    /\ UNCHANGED <<max_retries, req_pc, req_result, req_exc>>

\* bare `raise`: the exception of this attempt goes to the caller
RaiseNow(r, exc) ==
    /\ resps' = Append(resps, r)
    /\ req_pc' = "raised"
    /\ req_exc' = exc
    /\ UNCHANGED <<max_retries, retry_count, sleeps, req_result>>

\* response.raise_for_status() passes; `return response.json()`
ReqSuccess ==
    /\ req_pc = "calling"
    /\ \E body \in Bodies :
          /\ resps' = Append(resps, Resp200(body))
          /\ req_result' = body
    /\ req_pc' = "returned"
    /\ UNCHANGED <<max_retries, retry_count, sleeps, req_exc>>
    /\ UNCHANGED othersReq

\* except requests.exceptions.Timeout
ReqTimeout ==
    /\ req_pc = "calling"
    /\ IF CanRetry(retry_count, max_retries)
          THEN RetryAfter(RespTimeout, ExpBackoff(retry_count))
          ELSE RaiseNow(RespTimeout, TimeoutExc)
    /\ UNCHANGED othersReq

\* except requests.exceptions.HTTPError
ReqHTTPError ==
    /\ req_pc = "calling"
    /\ \E status \in ErrorStatuses :
          IF IsRateLimited(status)
             THEN \* the sleep happens before the budget is looked at
                  IF CanRetry(retry_count, max_retries)
                     THEN RetryAfter(RespHTTP(status), RateLimitWait(retry_count))
                     ELSE /\ resps' = Append(resps, RespHTTP(status))
                          /\ sleeps' = Append(sleeps, RateLimitWait(retry_count))
                          /\ req_pc' = "raised"
                          /\ req_exc' = HTTPError(status)
                          /\ UNCHANGED <<max_retries, retry_count, req_result>>
             ELSE IF IsServerError(status)
                     THEN IF CanRetry(retry_count, max_retries)
                             THEN RetryAfter(RespHTTP(status), ExpBackoff(retry_count))
                             ELSE RaiseNow(RespHTTP(status), HTTPError(status))
                     ELSE RaiseNow(RespHTTP(status), HTTPError(status))
    /\ UNCHANGED othersReq

\* except requests.exceptions.ConnectionError
ReqConnectionError ==
    /\ req_pc = "calling"
    /\ IF CanRetry(retry_count, max_retries)
          THEN RetryAfter(RespConnectionError, ExpBackoff(retry_count))
          ELSE RaiseNow(RespConnectionError, ConnectionErrorExc)
    /\ UNCHANGED othersReq

\* A client constructed with some max_retries, at the first call of _make_request
InitRequest ==
    /\ max_retries \in 0..MaxRetriesCap
    /\ req_pc = "calling"
    /\ retry_count = 0
    /\ resps = <<>>
    /\ sleeps = <<>>
    /\ req_result = "none"
    /\ req_exc = NoExc
    /\ PgIdle /\ GdIdle /\ ClIdle /\ ExIdle /\ TrIdle /\ TmIdle /\ AnIdle /\ SqIdle /\ EmIdle

NextRequest == ReqSuccess \/ ReqTimeout \/ ReqHTTPError \/ ReqConnectionError

SpecRequest == InitRequest /\ [][NextRequest]_vars

\* session.get ends with a response or, after self.timeout, with a Timeout,
\* and every time.sleep ends: a call that can go on does go on
SpecRequestLive == InitRequest /\ [][NextRequest]_vars /\ WF_vars(NextRequest)

-----------------------------------------------------------------------------
(***************************************************************************)
(* CBSAPIClient.get_data / get_data_paginated                              *)
(***************************************************************************)
\* Python truthiness of an Optional[int]: `if max_rows:` / `if top:` / `if skip:`
Truthy(opt) == opt # <<>> /\ opt[1] # 0

\* rows first..last of the server's result set (rows are numbered 1..server_rows)
RowRange(first, last) == [i \in 1..(IF last >= first THEN last - first + 1 ELSE 0) |-> first + i - 1]

\* The server's answer to $top/$skip over n matching rows; a parameter that is
\* not sent (<<>>) means no limit / no offset.
ServerPage(n, topParam, skipParam) ==
    LET off == IF skipParam = <<>> THEN 0 ELSE skipParam[1]
        lim == IF topParam = <<>> THEN n ELSE topParam[1]
    IN  RowRange(off + 1, Min(n, off + lim))

\* get_data: `if top: params['$top'] = top`, `if skip: params['$skip'] = skip`
GetData(n, top, skp) ==
    ServerPage(n, IF Truthy(<<top>>) THEN <<top>> ELSE <<>>,
                  IF Truthy(<<skp>>) THEN <<skp>> ELSE <<>>)

\* `rows_to_fetch = min(self.batch_size, remaining)` or `self.batch_size`
RowsToFetch(bs, mx, got) ==
    IF Truthy(mx) THEN Min(bs, mx[1] - got) ELSE bs

\* `len(batch_df) < rows_to_fetch`
IsShortPage_orequal(n, wanted) == n <= wanted

IsShortPage(n, wanted) == n < wanted

\* `pd.concat(all_data, ignore_index=True)`, or an empty DataFrame
ConcatBatches(batches) == Flatten(batches)

\* `skip += len(batch_df)`
NextSkip_gap(skp, n) == skp + n + 1

NextSkip(skp, n) == skp + n

\* one iteration of `while True` that issues a page request
PgFetchPage ==
    /\ pg_pc = "loop"
    /\ LET rows_to_fetch == RowsToFetch(batch_size, max_rows, total_fetched)
           batch_df == GetData(server_rows, rows_to_fetch, skip)
       IN  /\ ~(Truthy(max_rows) /\ rows_to_fetch <= 0)
           /\ page_log' = Append(page_log, <<rows_to_fetch, skip>>)
           /\ IF batch_df = <<>>
                 THEN \* "No more data available"
                      /\ pg_pc' = "done"
                      /\ result_df' = ConcatBatches(all_data)
                      /\ UNCHANGED <<all_data, total_fetched, skip>>
                 ELSE /\ all_data' = Append(all_data, batch_df)
                      /\ total_fetched' = total_fetched + Len(batch_df)
                      /\ skip' = NextSkip(skip, Len(batch_df))
                      /\ IF IsShortPage(Len(batch_df), rows_to_fetch)
                            THEN /\ pg_pc' = "done"
                                 /\ result_df' = ConcatBatches(all_data')
                            ELSE UNCHANGED <<pg_pc, result_df>>
    /\ UNCHANGED <<batch_size, max_rows, server_rows>>
    /\ UNCHANGED othersPg

\* the iteration that finds `rows_to_fetch <= 0`: "Reached max_rows limit"
PgReachedMax ==
    /\ pg_pc = "loop"
    /\ Truthy(max_rows)
    /\ RowsToFetch(batch_size, max_rows, total_fetched) <= 0
    /\ pg_pc' = "done"
    /\ result_df' = ConcatBatches(all_data)
    /\ UNCHANGED <<batch_size, max_rows, server_rows, all_data, skip,
                   total_fetched, page_log>>
    /\ UNCHANGED othersPg

\* get_data raises (its _make_request gave up): nothing catches it here
PgPageRaises ==
    /\ pg_pc = "loop"
    /\ ~(Truthy(max_rows) /\ RowsToFetch(batch_size, max_rows, total_fetched) <= 0)
    /\ page_log' = Append(page_log,
                          <<RowsToFetch(batch_size, max_rows, total_fetched), skip>>)
    /\ pg_pc' = "raised"
    /\ UNCHANGED <<batch_size, max_rows, server_rows, all_data, skip,
                   total_fetched, result_df>>
    /\ UNCHANGED othersPg

InitPaginate ==
    /\ batch_size \in 1..MaxBatchSize
    /\ max_rows \in {<<>>} \cup {<<m>> : m \in 0..MaxRowsCap}
    /\ server_rows \in 0..MaxServerRows
    /\ pg_pc = "loop"
    /\ all_data = <<>>
    /\ skip = 0
    /\ total_fetched = 0
    /\ page_log = <<>>
    /\ result_df = <<>>
    /\ ReqIdle /\ GdIdle /\ ClIdle /\ ExIdle /\ TrIdle /\ TmIdle /\ AnIdle /\ SqIdle /\ EmIdle

NextPaginate == PgFetchPage \/ PgReachedMax \/ PgPageRaises

SpecPaginate == InitPaginate /\ [][NextPaginate]_vars

\* ---- get_data_paginated with the requests of its pages ---------------------
\* get_data calls `self._make_request(url, params)`: retry_count takes its
\* default, 0, whatever an earlier call counted
PageRetryCount_carried(rc) == rc

PageRetryCount(rc) == 0

\* one iteration of `while True` comes to `self.get_data(...)`, which calls
\* _make_request
PgRequestPage ==
    /\ pg_pc = "loop"
    /\ req_pc # "calling"
    /\ ~(Truthy(max_rows) /\ RowsToFetch(batch_size, max_rows, total_fetched) <= 0)
    /\ page_log' = Append(page_log,
                          <<RowsToFetch(batch_size, max_rows, total_fetched), skip>>)
    /\ pg_pc' = "page"
    /\ req_pc' = "calling"
    /\ retry_count' = PageRetryCount(retry_count)
    /\ resps' = <<>>
    /\ UNCHANGED <<max_retries, sleeps, req_result, req_exc>>
    /\ UNCHANGED <<batch_size, max_rows, server_rows, all_data, skip, total_fetched,
                   result_df>>
    /\ UNCHANGED <<gdVars, clVars, exVars, trVars, tmVars, anVars, sqVars, emVars>>

\* _make_request has returned the page: the rest of the iteration
PgPageAnswered ==
    /\ pg_pc = "page"
    /\ req_pc = "returned"
    /\ LET rows_to_fetch == Last(page_log)[1]
           batch_df == GetData(server_rows, rows_to_fetch, skip)
       IN  IF batch_df = <<>>
              THEN /\ pg_pc' = "done"
                   /\ result_df' = ConcatBatches(all_data)
                   /\ UNCHANGED <<all_data, total_fetched, skip>>
              ELSE /\ all_data' = Append(all_data, batch_df)
                   /\ total_fetched' = total_fetched + Len(batch_df)
                   /\ skip' = NextSkip(skip, Len(batch_df))
                   /\ IF IsShortPage(Len(batch_df), rows_to_fetch)
                         THEN /\ pg_pc' = "done"
                              /\ result_df' = ConcatBatches(all_data')
                         ELSE /\ pg_pc' = "loop"
                              /\ UNCHANGED result_df
    /\ UNCHANGED <<batch_size, max_rows, server_rows, page_log>>
    /\ UNCHANGED othersPg

\* _make_request has raised: neither get_data nor get_data_paginated has a
\* handler, the exception leaves get_data_paginated and nothing is returned
PgPageFailed ==
    /\ pg_pc = "page"
    /\ req_pc = "raised"
    /\ pg_pc' = "raised"
    /\ UNCHANGED <<batch_size, max_rows, server_rows, all_data, skip,
                   total_fetched, page_log, result_df>>
    /\ UNCHANGED othersPg

InitPagedRequests ==
    /\ batch_size \in 1..MaxBatchSize
    /\ max_rows \in {<<>>, <<2>>}
    /\ server_rows \in 0..MaxPagedRows
    /\ pg_pc = "loop"
    /\ all_data = <<>>
    /\ skip = 0
    /\ total_fetched = 0
    /\ page_log = <<>>
    /\ result_df = <<>>
    /\ max_retries \in 0..MaxPageRetries
    /\ req_pc = "idle"
    /\ retry_count = 0
    /\ resps = <<>>
    /\ sleeps = <<>>
    /\ req_result = "none"
    /\ req_exc = NoExc
    /\ GdIdle /\ ClIdle /\ ExIdle /\ TrIdle /\ TmIdle /\ AnIdle /\ SqIdle /\ EmIdle

NextPagedRequests ==
    \/ PgRequestPage
    \/ ReqSuccess
    \/ ReqTimeout
    \/ ReqHTTPError
    \/ ReqConnectionError
    \/ PgPageAnswered
    \/ PgPageFailed
    \/ PgReachedMax

SpecPagedRequests == InitPagedRequests /\ [][NextPagedRequests]_vars

-----------------------------------------------------------------------------
(***************************************************************************)
(* CBSAPIClient.get_all_dimensions                                         *)
(***************************************************************************)
\* the endpoints a CBS table lists, in the order of the metadata document
AllEndpoints == <<"TableInfos", "UntypedDataSet", "TypedDataSet", "DataProperties",
                  "CategoryGroups", "Regiokenmerken", "Gebruiksfunctie",
                  "Woningtype", "Perioden">>

\* `excluded = ['TableInfos', 'UntypedDataSet', 'TypedDataSet', 'DataProperties', 'CategoryGroups']`
excluded_short == {"TableInfos", "UntypedDataSet", "TypedDataSet", "DataProperties"}

excluded == {"TableInfos", "UntypedDataSet", "TypedDataSet", "DataProperties",
             "CategoryGroups"}

IsDimensionName(n) == n \notin excluded

\* `[item['name'] for item in table_info.get('value', []) if item['name'] not in excluded]`
dimension_names(eps) == SelectSeq(eps, IsDimensionName)

EmptyDataFrame == <<>>

\* what get_dimension can return: the rows of data['value'], or an empty
\* DataFrame when the response has no 'value' key
DimensionAnswers == {EmptyDataFrame,
                     <<[Key |-> "c1", Title |-> "t1"]>>,
                     <<[Key |-> "c1", Title |-> "t1"], [Key |-> "c2", Title |-> "t2"]>>}

\* `dimensions[dim_name] = df`
DictSet(d, k, v) == [n \in (DOMAIN d) \cup {k} |-> IF n = k THEN v ELSE d[n]]

\* `return dimensions` once the for loop has run out
GdLoopEnd(idx) ==
    IF idx = Len(dimension_names(endpoints))
       THEN gd_pc' = "returned"
       ELSE UNCHANGED gd_pc

\* get_table_info succeeds; dimension_names is derived from its answer
GdTableInfo ==
    /\ gd_pc = "info"
    /\ IF dimension_names(endpoints) = <<>>
          THEN gd_pc' = "returned"
          ELSE gd_pc' = "loop"
    /\ UNCHANGED <<endpoints, dim_idx, dimensions, fetched>>
    /\ UNCHANGED othersGd

\* get_table_info raises: it is called outside the try block
GdTableInfoRaises ==
    /\ gd_pc = "info"
    /\ gd_pc' = "raised"
    /\ UNCHANGED <<endpoints, dim_idx, dimensions, fetched>>
    /\ UNCHANGED othersGd

\* one iteration of the for loop, get_dimension returns df
GdFetchDimension ==
    /\ gd_pc = "loop"
    /\ LET dim_name == dimension_names(endpoints)[dim_idx + 1]
       IN  \E dim_df \in DimensionAnswers :
              /\ dimensions' = DictSet(dimensions, dim_name, dim_df)
              /\ fetched' = Append(fetched, [name |-> dim_name, outcome |-> "ok",
                                             df |-> dim_df])
    /\ dim_idx' = dim_idx + 1
    /\ GdLoopEnd(dim_idx + 1)
    /\ UNCHANGED endpoints
    /\ UNCHANGED othersGd

\* one iteration of the for loop, get_dimension raises: `except Exception`
GdFetchDimensionFails ==
    /\ gd_pc = "loop"
    /\ LET dim_name == dimension_names(endpoints)[dim_idx + 1]
       IN  /\ dimensions' = DictSet(dimensions, dim_name, EmptyDataFrame)
           /\ fetched' = Append(fetched, [name |-> dim_name, outcome |-> "raised",
                                          df |-> EmptyDataFrame])
    /\ dim_idx' = dim_idx + 1
    /\ GdLoopEnd(dim_idx + 1)
    /\ UNCHANGED endpoints
    /\ UNCHANGED othersGd

\* the metadata of a table lists any selection of the endpoints
InitDims ==
    /\ \E chosen \in SUBSET {AllEndpoints[i] : i \in 1..Len(AllEndpoints)} :
          endpoints = SelectSeq(AllEndpoints, LAMBDA n : n \in chosen)
    /\ gd_pc = "info"
    /\ dim_idx = 0
    /\ dimensions = <<>>
    /\ fetched = <<>>
    /\ ReqIdle /\ PgIdle /\ ClIdle /\ ExIdle /\ TrIdle /\ TmIdle /\ AnIdle /\ SqIdle /\ EmIdle

NextDims == GdTableInfo \/ GdTableInfoRaises \/ GdFetchDimension \/ GdFetchDimensionFails

SpecDims == InitDims /\ [][NextDims]_vars

-----------------------------------------------------------------------------
(***************************************************************************)
(* cleanup_old_extractions / _extract_timestamp                            *)
(*                                                                         *)
(* A file is [stem, suffix]; the stem is the list file.stem.split('_') of  *)
(* its parts, and a part is known by its length, by whether it is all      *)
(* digits, and by its number (digits) or its text (otherwise).             *)
(***************************************************************************)
Digits(val, len) == [len |-> len, digit |-> TRUE, val |-> val, txt |-> ""]

Word(txt, len) == [len |-> len, digit |-> FALSE, val |-> 0, txt |-> txt]

NoTimestamp == <<>>

\* `len(part) == 8 and part.isdigit()` followed by
\* `i + 1 < len(parts) and len(parts[i + 1]) == 6 and parts[i + 1].isdigit()`
IsTimestampAt(parts, i) ==
    /\ parts[i].len = 8 /\ parts[i].digit
    /\ i + 1 <= Len(parts)
    /\ parts[i + 1].len = 6 /\ parts[i + 1].digit

\* The timestamp string f"{part}_{parts[i + 1]}" of the first match, as the
\* pair of its two numbers, or None.
ExtractTimestamp(file) ==
    LET parts == file.stem
        hits == {i \in 1..Len(parts) : IsTimestampAt(parts, i)}
    IN  IF hits = {} THEN NoTimestamp
        ELSE LET i == CHOOSE j \in hits : \A k \in hits : j <= k
             IN  <<parts[i].val, parts[i + 1].val>>

\* `file.suffix not in ['.csv', '.parquet']` -> skipped
IsDataSuffix_any(file) == file.suffix \in {".csv", ".parquet", ".log"}

IsDataSuffix(file) == file.suffix \in {".csv", ".parquet"}

\* `files_by_timestamp`: the timestamps found, and the files of each
FilesByTimestamp(dir, ts) ==
    {f \in dir : IsDataSuffix(f) /\ ExtractTimestamp(f) = ts}

TimestampKeys(dir) ==
    {ExtractTimestamp(f) : f \in {g \in dir : IsDataSuffix(g)}} \ {NoTimestamp}

\* order of two timestamp strings "YYYYMMDD_HHMMSS": both have the same width
\* and only digits, so the string order is the order of (date, time)
StrGreater_ascending(a, b) == a[1] < b[1] \/ (a[1] = b[1] /\ a[2] < b[2])

StrGreater(a, b) == a[1] > b[1] \/ (a[1] = b[1] /\ a[2] > b[2])

\* `sorted(files_by_timestamp.keys(), reverse=True)`
RECURSIVE SortedReverse(_)
SortedReverse(S) ==
    IF S = {} THEN <<>>
    ELSE LET m == CHOOSE x \in S : \A y \in S \ {x} : StrGreater(x, y)
         IN  <<m>> \o SortedReverse(S \ {m})

\* `sorted_timestamps[keep_last_n:]`
TimestampsToDelete(sorted_timestamps, n) ==
    {sorted_timestamps[i] : i \in (n + 1)..Len(sorted_timestamps)}

\* `if not files_by_timestamp: return`
ClNoExtractionFiles ==
    /\ cl_pc = "ready"
    /\ TimestampKeys(raw_dir) = {}
    /\ cl_pc' = "done"
    /\ UNCHANGED <<raw_dir, keep_last_n, removed>>
    /\ UNCHANGED othersCl

\* `if len(sorted_timestamps) <= keep_last_n: return`
ClNothingToClean ==
    /\ cl_pc = "ready"
    /\ TimestampKeys(raw_dir) # {}
    /\ Len(SortedReverse(TimestampKeys(raw_dir))) <= keep_last_n
    /\ cl_pc' = "done"
    /\ UNCHANGED <<raw_dir, keep_last_n, removed>>
    /\ UNCHANGED othersCl

\* it unlinks every file of every timestamp after the newest keep_last_n
ClDeleteOld ==
    /\ cl_pc = "ready"
    /\ TimestampKeys(raw_dir) # {}
    /\ LET sorted_timestamps == SortedReverse(TimestampKeys(raw_dir))
           timestamps_to_delete == TimestampsToDelete(sorted_timestamps, keep_last_n)
           doomed == UNION {FilesByTimestamp(raw_dir, ts) : ts \in timestamps_to_delete}
       IN  /\ Len(sorted_timestamps) > keep_last_n
           /\ raw_dir' = raw_dir \ doomed
           /\ removed' = removed \cup doomed
    /\ cl_pc' = "done"
    /\ UNCHANGED keep_last_n
    /\ UNCHANGED othersCl

\* The files RAW_DATA_DIR may hold: the fact file (csv, parquet) and a
\* dimension file of three extractions, and three files that belong to none.
ExtractionTimestamps == {<<20260220, 205059>>, <<20260220, 205140>>, <<20260221, 90000>>}

FactStem(ts) == <<Word("fact", 4), Word("doorlooptijden", 14), Digits(2015, 4),
                  Digits(2025, 4), Word("86260NED", 8), Digits(ts[1], 8), Digits(ts[2], 6)>>

\* dim_name.lower(), with its length
LowerName(dim_name) ==
    CASE dim_name = "Regiokenmerken"  -> Word("regiokenmerken", 14)
      [] dim_name = "Gebruiksfunctie" -> Word("gebruiksfunctie", 15)
      [] dim_name = "Woningtype"      -> Word("woningtype", 10)
      [] dim_name = "RegioS"          -> Word("regios", 6)
      [] dim_name = "Perioden"        -> Word("perioden", 8)

\* f"dim_{dim_name.lower()}_{table_id}_{self.timestamp}".split('_')
DimFileStem(dim_name, table_id, ts) ==
    <<Word("dim", 3), LowerName(dim_name), Word(table_id, 8),
      Digits(ts[1], 8), Digits(ts[2], 6)>>

DimStem(ts) == DimFileStem("Perioden", "86260NED", ts)

File(stem, suffix) == [stem |-> stem, suffix |-> suffix]

ExtractionFiles(ts) == {File(FactStem(ts), ".csv"), File(FactStem(ts), ".parquet"),
                        File(DimStem(ts), ".csv")}

OtherFiles == {File(<<Word("notes", 5)>>, ".csv"),
               File(FactStem(<<20260220, 205059>>), ".log"),
               File(<<Word("dim", 3), Digits(20260220, 8), Word("backup", 6)>>, ".csv")}

FileUniverse == (UNION {ExtractionFiles(ts) : ts \in ExtractionTimestamps}) \cup OtherFiles

\* any set of files, complete extractions or not, and any keep_last_n >= 0
InitCleanup ==
    /\ raw_dir \in SUBSET FileUniverse
    /\ keep_last_n \in 0..MaxKeep
    /\ cl_pc = "ready"
    /\ removed = {}
    /\ ReqIdle /\ PgIdle /\ GdIdle /\ ExIdle /\ TrIdle /\ TmIdle /\ AnIdle /\ SqIdle /\ EmIdle

NextCleanup == ClNoExtractionFiles \/ ClNothingToClean \/ ClDeleteOld

SpecCleanup == InitCleanup /\ [][NextCleanup]_vars

-----------------------------------------------------------------------------
(***************************************************************************)
(* HousingDataExtractor.extract_doorlooptijden and                         *)
(* HousingDataExtractor.extract_woningen_pijplijn_feed_api                 *)
(***************************************************************************)
\* DOORLOOPTIJD_CONFIG['table_id'] / PIJPLIJN_CONFIG['table_id']
TableId(dataset) == IF dataset = "doorlooptijden" THEN "86260NED" ELSE "82211NED"

\* the dimension endpoints of the two tables, in metadata order
DatasetDimensions(dataset) ==
    IF dataset = "doorlooptijden"
       THEN <<"Regiokenmerken", "Gebruiksfunctie", "Woningtype", "Perioden">>
       ELSE <<"Gebruiksfunctie", "RegioS", "Perioden">>

\* f"fact_doorlooptijden_{start_year}_{end_year}_{table_id}_{self.timestamp}" and
\* f"fact_woningen_pijplijn_{start_year}_{end_year}_{table_id}_{self.timestamp}",
\* split at '_', for main's START_YEAR = 2015 and END_YEAR = 2025
FactFileStem(dataset, ts) ==
    IF dataset = "doorlooptijden"
       THEN FactStem(ts)
       ELSE <<Word("fact", 4), Word("woningen", 8), Word("pijplijn", 8), Digits(2015, 4),
              Digits(2025, 4), Word("82211NED", 8), Digits(ts[1], 8), Digits(ts[2], 6)>>

\* _save_dataframe(df, filename, ['csv', 'parquet'])
SavedFiles(stem) == <<File(stem, ".csv"), File(stem, ".parquet")>>

\* the keyword parameters CBSAPIClient.__init__ accepts
ClientInitParams == {"base_url", "timeout", "max_retries", "batch_size"}

\* calling CBSAPIClient(**kwargs): an unknown keyword raises TypeError
ConstructClient(kwargs) == IF kwargs \subseteq ClientInitParams THEN "ok" ELSE "TypeError"

\* the keyword arguments each method constructs its fact client with:
\* HousingDataExtractor.__init__ calls CBSAPIClient(), the feed method calls
\* CBSAPIClient(api_type='feed')
FactClientKwargs(dataset) == IF dataset = "doorlooptijden" THEN {} ELSE {"api_type"}

\* main's START_YEAR and END_YEAR, the arguments of both extraction methods
START_YEAR == 2015
END_YEAR == 2025

\* <dataset>_CONFIG['perioden']: start_year and end_year (their defaults)
DescriptorYears(dataset) ==
    IF dataset = "doorlooptijden" THEN [start_year |-> 2015, end_year |-> 2024]
                                  ELSE [start_year |-> 2015, end_year |-> 2025]

\* the values the descriptor's granularity can hold: DOORLOOPTIJD_CONFIG has
\* the literal 'quarter', PIJPLIJN_CONFIG reads PIJPLIJN_GRANULARITY (any
\* string, 'quarter' by default)
ConfiguredGranularities(dataset) ==
    IF dataset = "doorlooptijden" THEN {"quarter"}
                                  ELSE {"quarter", "month", "year", "week"}

\* f"Perioden ge '{start_period}' and Perioden le '{end_period}'": the filter
\* as the two period codes it names, each a year and a period suffix
PeriodRange(start_year, start_code, end_year, end_code) ==
    [type |-> "filter", ge |-> <<start_year, start_code>>, le |-> <<end_year, end_code>>]

\* CBSAPIClient.build_period_filter(start_year, end_year, granularity)
build_period_filter(start_year, end_year, granularity) ==
    CASE granularity = "quarter" -> PeriodRange(start_year, "KW01", end_year, "KW04")
      [] granularity = "month"   -> PeriodRange(start_year, "MM01", end_year, "MM12")
      [] granularity = "year"    -> PeriodRange(start_year, "JJ00", end_year, "JJ00")
      [] OTHER -> [type |-> "ValueError", ge |-> <<>>, le |-> <<>>]

\* the filter each method builds before its fact request:
\* extract_doorlooptijden calls build_period_filter with the descriptor's
\* granularity, extract_woningen_pijplijn_feed_api formats
\* f"{start_year}MM01" and f"{end_year}MM12" itself
MethodFilter(dataset, start_year, end_year, granularity) ==
    IF dataset = "doorlooptijden"
       THEN build_period_filter(start_year, end_year, granularity)
       ELSE PeriodRange(start_year, "MM01", end_year, "MM12")

\* a non-empty table the API returns
SomeDimensionTable == <<[Key |-> "c1", Title |-> "t1"], [Key |-> "c2", Title |-> "t2"]>>

FactAnswers == {<<>>, <<1>>, <<1, 2>>}

\* the dimension names of a dict, in insertion order
DictOrder(dataset, d) == SelectSeq(DatasetDimensions(dataset), LAMBDA n : n \in DOMAIN d)

\* `dimensions = self.client.get_all_dimensions(table_id)` returns: the
\* metadata lists `names`, the fetch of those in `failing` raised
ExGetAllDimensions ==
    /\ ex_pc = "dims"
    /\ \E names \in SUBSET {DatasetDimensions(ex_dataset)[i] :
                               i \in 1..Len(DatasetDimensions(ex_dataset))} :
          \E failing \in SUBSET names :
             /\ ex_dimensions' = [n \in names |-> IF n \in failing THEN EmptyDataFrame
                                                  ELSE SomeDimensionTable]
             /\ ex_api_failed' = (failing # {})
             /\ ex_pc' = IF names = {} THEN "fact" ELSE "save_dims"
    /\ UNCHANGED <<ex_dataset, ex_timestamp, ex_saved, ex_fact, ex_exc, ex_written,
                   ex_granularity, ex_filter>>
    /\ UNCHANGED raw_dir
    /\ UNCHANGED othersEx

\* get_all_dimensions raises (its get_table_info request failed)
ExGetAllDimensionsRaises ==
    /\ ex_pc = "dims"
    /\ ex_pc' = "raised"
    /\ ex_exc' = "RequestException"
    /\ ex_api_failed' = TRUE
    /\ UNCHANGED <<ex_dataset, ex_timestamp, ex_dimensions, ex_saved, ex_fact, ex_written,
                   ex_granularity, ex_filter>>
    /\ UNCHANGED raw_dir
    /\ UNCHANGED othersEx

\* one iteration of `for dim_name, dim_df in dimensions.items()`
ExSaveDimension ==
    /\ ex_pc = "save_dims"
    /\ LET order == DictOrder(ex_dataset, ex_dimensions)
           dim_name == order[ex_saved + 1]
           files == SavedFiles(DimFileStem(dim_name, TableId(ex_dataset), ex_timestamp))
       IN  /\ raw_dir' = raw_dir \cup {files[1], files[2]}
           /\ ex_written' = ex_written \o files
           /\ ex_pc' = IF ex_saved + 1 = Len(order) THEN "fact" ELSE "save_dims"
    /\ ex_saved' = ex_saved + 1
    /\ UNCHANGED <<ex_dataset, ex_timestamp, ex_dimensions, ex_fact, ex_exc, ex_api_failed,
                   ex_granularity, ex_filter>>
    /\ UNCHANGED othersEx

\* the fact client is constructed, get_data_paginated returns fact_data, the
\* null check only logs, the fact table is saved and the method returns
ExExtractFact ==
    /\ ex_pc = "fact"
    /\ ConstructClient(FactClientKwargs(ex_dataset)) = "ok"
    /\ \E fact_data \in FactAnswers :
          LET files == SavedFiles(FactFileStem(ex_dataset, ex_timestamp))
          IN  /\ ex_fact' = fact_data
              /\ ex_filter' = <<MethodFilter(ex_dataset, START_YEAR, END_YEAR,
                                             ex_granularity)>>
              /\ raw_dir' = raw_dir \cup {files[1], files[2]}
              /\ ex_written' = ex_written \o files
    /\ ex_pc' = "returned"
    /\ UNCHANGED <<ex_dataset, ex_timestamp, ex_dimensions, ex_saved, ex_exc, ex_api_failed,
                   ex_granularity>>
    /\ UNCHANGED othersEx

\* get_data_paginated raises: the method raises, no fact file is written
ExFactRequestFails ==
    /\ ex_pc = "fact"
    /\ ConstructClient(FactClientKwargs(ex_dataset)) = "ok"
    /\ ex_pc' = "raised"
    /\ ex_exc' = "RequestException"
    /\ ex_api_failed' = TRUE
    /\ ex_filter' = <<MethodFilter(ex_dataset, START_YEAR, END_YEAR, ex_granularity)>>
    /\ UNCHANGED <<ex_dataset, ex_timestamp, ex_dimensions, ex_saved, ex_fact, ex_written,
                   ex_granularity>>
    /\ UNCHANGED raw_dir
    /\ UNCHANGED othersEx

\* the construction of the fact client raises before any request is made
ExClientConstructionFails ==
    /\ ex_pc = "fact"
    /\ ConstructClient(FactClientKwargs(ex_dataset)) # "ok"
    /\ ex_pc' = "raised"
    /\ ex_exc' = ConstructClient(FactClientKwargs(ex_dataset))
    /\ ex_filter' = <<MethodFilter(ex_dataset, START_YEAR, END_YEAR, ex_granularity)>>
    /\ UNCHANGED <<ex_dataset, ex_timestamp, ex_dimensions, ex_saved, ex_fact,
                   ex_api_failed, ex_written, ex_granularity>>
    /\ UNCHANGED raw_dir
    /\ UNCHANGED othersEx

\* The extractor was constructed now (the newest timestamp) and one of the
\* two methods is called; RAW_DATA_DIR holds some files of an older extraction.
InitExtract ==
    /\ ex_dataset \in {"doorlooptijden", "woningen_pijplijn"}
    /\ ex_pc = "dims"
    /\ ex_timestamp = <<20260221, 90000>>
    /\ ex_dimensions = <<>>
    /\ ex_saved = 0
    /\ ex_fact = <<>>
    /\ ex_exc = "none"
    /\ ex_api_failed = FALSE
    /\ ex_written = <<>>
    /\ ex_granularity \in ConfiguredGranularities(ex_dataset)
    /\ ex_filter = <<>>
    /\ raw_dir \in SUBSET ExtractionFiles(<<20260220, 205140>>)
    /\ keep_last_n = 1
    /\ cl_pc = "idle"
    /\ removed = {}
    /\ ReqIdle /\ PgIdle /\ GdIdle /\ TrIdle /\ TmIdle /\ AnIdle /\ SqIdle /\ EmIdle

NextExtract ==
    \/ ExGetAllDimensions
    \/ ExGetAllDimensionsRaises
    \/ ExSaveDimension
    \/ ExExtractFact
    \/ ExFactRequestFails
    \/ ExClientConstructionFails

SpecExtract == InitExtract /\ [][NextExtract]_vars

-----------------------------------------------------------------------------
(***************************************************************************)
(* main of extract_cbs_housing.py: the prompt, the two extractions inside  *)
(* `with HousingDataExtractor() as extractor`, cleanup_old_extractions     *)
(* after the with block, and the two except clauses                        *)
(***************************************************************************)
\* the extraction main calls first, and the one it calls second
MainExtractions == <<"doorlooptijden", "woningen_pijplijn">>

\* what cleanup_old_extractions(keep_last_n) unlinks in a directory
FilesToDelete(dir, n) ==
    LET sorted_timestamps == SortedReverse(TimestampKeys(dir))
    IN  IF TimestampKeys(dir) = {} \/ Len(sorted_timestamps) <= n
           THEN {}
           ELSE UNION {FilesByTimestamp(dir, ts) :
                          ts \in TimestampsToDelete(sorted_timestamps, n)}

\* the statement after the with block is reached when the second extraction
\* has returned: an exception of either method leaves the try block
CleanupReached_finally(dataset, pc) == TRUE

CleanupReached(dataset, pc) == dataset = MainExtractions[2] /\ pc = "returned"

\* `if response.lower() != 'y': ... return`
EmDecline ==
    /\ em_pc = "prompt"
    /\ em_pc' = "cancelled"
    /\ UNCHANGED <<em_done, em_cleanup, em_exc, em_log>>
    /\ UNCHANGED <<clVars, exVars>>
    /\ UNCHANGED <<reqVars, pgVars, gdVars, trVars, tmVars, anVars, sqVars>>

\* the answer is 'y': the extractor is constructed (its timestamp is taken)
\* and extract_doorlooptijden is called
EmProceed ==
    /\ em_pc = "prompt"
    /\ em_pc' = "extract"
    /\ ex_dataset' = MainExtractions[1]
    /\ ex_pc' = "dims"
    /\ UNCHANGED <<em_done, em_cleanup, em_exc, em_log>>
    /\ UNCHANGED <<ex_timestamp, ex_dimensions, ex_saved, ex_fact, ex_exc, ex_api_failed,
                   ex_written, ex_granularity, ex_filter>>
    /\ UNCHANGED clVars
    /\ UNCHANGED <<reqVars, pgVars, gdVars, trVars, tmVars, anVars, sqVars>>

\* extract_doorlooptijden has returned: extract_woningen_pijplijn_feed_api
\* is called on the same extractor (the same timestamp)
EmDataset1Complete ==
    /\ em_pc = "extract"
    /\ ex_dataset = MainExtractions[1]
    /\ ex_pc = "returned"
    /\ em_done' = Append(em_done, ex_dataset)
    /\ ex_dataset' = MainExtractions[2]
    /\ ex_pc' = "dims"
    /\ ex_dimensions' = <<>>
    /\ ex_saved' = 0
    /\ ex_fact' = <<>>
    /\ ex_filter' = <<>>
    /\ ex_granularity' \in ConfiguredGranularities(MainExtractions[2])
    /\ UNCHANGED <<em_pc, em_cleanup, em_exc, em_log>>
    /\ UNCHANGED <<ex_timestamp, ex_exc, ex_api_failed, ex_written>>
    /\ UNCHANGED clVars
    /\ UNCHANGED <<reqVars, pgVars, gdVars, trVars, tmVars, anVars, sqVars>>

\* the with block is left. When the second extraction has returned,
\* cleanup_old_extractions(keep_last_n=1) runs and main returns; when a
\* method has raised, `except Exception` logs the error and raises it again
EmWithBlockLeft ==
    /\ em_pc = "extract"
    /\ ex_pc \in {"returned", "raised"}
    /\ ~(ex_dataset = MainExtractions[1] /\ ex_pc = "returned")
    /\ IF CleanupReached(ex_dataset, ex_pc)
          THEN /\ em_cleanup' = TRUE
               /\ raw_dir' = raw_dir \ FilesToDelete(raw_dir, 1)
               /\ removed' = removed \cup FilesToDelete(raw_dir, 1)
               /\ em_done' = IF ex_pc = "returned" THEN Append(em_done, ex_dataset)
                                                  ELSE em_done
               /\ em_pc' = "complete"
               /\ UNCHANGED <<em_exc, em_log>>
          ELSE /\ em_log' = Append(em_log, LogLine("error", "Extraction failed", ex_exc))
               /\ em_exc' = ex_exc
               /\ em_pc' = "raised"
               /\ UNCHANGED <<em_done, em_cleanup, raw_dir, removed>>
    /\ UNCHANGED <<keep_last_n, cl_pc>>
    /\ UNCHANGED exVars
    /\ UNCHANGED <<reqVars, pgVars, gdVars, trVars, tmVars, anVars, sqVars>>

\* Ctrl-C while a method runs: `except KeyboardInterrupt` logs a warning
\* and main returns
EmKeyboardInterrupt ==
    /\ em_pc = "extract"
    /\ ex_pc \in {"dims", "save_dims", "fact"}
    /\ ex_pc' = "raised"
    /\ ex_exc' = "KeyboardInterrupt"
    /\ em_pc' = "interrupted"
    /\ em_log' = Append(em_log, LogLine("warning", "Extraction interrupted by user",
                                        "KeyboardInterrupt"))
    /\ UNCHANGED <<em_done, em_cleanup, em_exc>>
    /\ UNCHANGED <<ex_dataset, ex_timestamp, ex_dimensions, ex_saved, ex_fact,
                   ex_api_failed, ex_written, ex_granularity, ex_filter>>
    /\ UNCHANGED clVars
    /\ UNCHANGED <<reqVars, pgVars, gdVars, trVars, tmVars, anVars, sqVars>>

\* a step of the method main is in
EmMethodStep ==
    /\ em_pc = "extract"
    /\ NextExtract

\* main is at its prompt; RAW_DATA_DIR holds some files of an older extraction
InitExtractMain ==
    /\ em_pc = "prompt"
    /\ em_done = <<>>
    /\ em_cleanup = FALSE
    /\ em_exc = "none"
    /\ em_log = <<>>
    /\ ex_dataset = MainExtractions[1]
    /\ ex_pc = "idle"
    /\ ex_timestamp = <<20260221, 90000>>
    /\ ex_dimensions = <<>>
    /\ ex_saved = 0
    /\ ex_fact = <<>>
    /\ ex_exc = "none"
    /\ ex_api_failed = FALSE
    /\ ex_written = <<>>
    /\ ex_granularity = "quarter"
    /\ ex_filter = <<>>
    /\ raw_dir \in SUBSET ExtractionFiles(<<20260220, 205140>>)
    /\ keep_last_n = 1
    /\ cl_pc = "idle"
    /\ removed = {}
    /\ ReqIdle /\ PgIdle /\ GdIdle /\ TrIdle /\ TmIdle /\ AnIdle /\ SqIdle

NextExtractMain ==
    \/ EmDecline
    \/ EmProceed
    \/ EmMethodStep
    \/ EmDataset1Complete
    \/ EmWithBlockLeft
    \/ EmKeyboardInterrupt

SpecExtractMain == InitExtractMain /\ [][NextExtractMain]_vars

-----------------------------------------------------------------------------
(***************************************************************************)
(* HousingDataTransformer.transform_doorlooptijden                         *)
(*                                                                         *)
(* A DataFrame is [cols, rows]; a row maps each column name to its value.  *)
(* A numeric cell or a label is <<>> when missing (NaN) and <<v>> else.    *)
(* A period code is the sequence of its characters.                        *)
(***************************************************************************)
NaN == <<>>

\* DATA_QUALITY_RULES
max_null_percentage_x100 == 15
min_year == 2015
max_year == 2025

\* the threshold of `df['Doorlooptijd_IQR'] > 10`
HighVariabilityThreshold == 10

\* `dim_names` of load_dimensions
dim_names == <<"regiokenmerken", "gebruiksfunctie", "woningtype", "perioden">>

DimNameSet == {dim_names[i] : i \in 1..Len(dim_names)}

\* the four joins: dimension, fact column (left_on), label column
Joins == << [dim |-> "regiokenmerken",  left_on |-> "Regiokenmerken",  label |-> "Regio_Naam"],
            [dim |-> "gebruiksfunctie", left_on |-> "Gebruiksfunctie", label |-> "Gebruiksfunctie_Naam"],
            [dim |-> "woningtype",      left_on |-> "Woningtype",      label |-> "Woningtype_Naam"],
            [dim |-> "perioden",        left_on |-> "Perioden",        label |-> "Periode_Naam"] >>

\* `column_mapping`
column_mapping ==
    [NieuwbouwTotaal_1                 |-> "Nieuwbouw_Aantal",
     k_10KwantielDoorlooptijdMaanden_2 |-> "Doorlooptijd_P10",
     k_25KwantielDoorlooptijdMaanden_3 |-> "Doorlooptijd_P25",
     MediaanDoorlooptijdMaanden_4      |-> "Doorlooptijd_Mediaan",
     k_75KwantielDoorlooptijdMaanden_5 |-> "Doorlooptijd_P75",
     k_90KwantielDoorlooptijdMaanden_6 |-> "Doorlooptijd_P90",
     GemiddeldeDoorlooptijdMaanden_7   |-> "Doorlooptijd_Gemiddelde"]

\* ---- column operations -------------------------------------------------
AddCol(row, c, v) == [k \in (DOMAIN row) \cup {c} |-> IF k = c THEN v ELSE row[k]]

DropCol(row, c) == [k \in (DOMAIN row) \ {c} |-> row[k]]

\* df.rename(columns=mapping) on one row / on the column set
NewName(mapping, c) == IF c \in DOMAIN mapping THEN mapping[c] ELSE c

RenameRow(row, mapping) ==
    [k \in {NewName(mapping, c) : c \in DOMAIN row} |->
        row[CHOOSE c \in DOMAIN row : NewName(mapping, c) = k]]

RenameCols(cols, mapping) == {NewName(mapping, c) : c \in cols}

\* ---- the merge ---------------------------------------------------------
\* the rows `df.merge(dim[['Key', 'Title']], left_on=..., right_on='Key', how='left')`
\* makes of one left row: one per matching dimension row, or one with a
\* missing Key and Title when nothing matches
MergeRow_inner(row, dim_rows, left_on) ==
    LET matches == SelectSeq(dim_rows, LAMBDA d : d.Key = row[left_on])
    IN  [k \in 1..Len(matches) |->
            AddCol(AddCol(row, "Key", <<matches[k].Key>>), "Title", <<matches[k].Title>>)]

MergeRow(row, dim_rows, left_on) ==
    LET matches == SelectSeq(dim_rows, LAMBDA d : d.Key = row[left_on])
    IN  IF matches = <<>>
           THEN << AddCol(AddCol(row, "Key", NaN), "Title", NaN) >>
           ELSE [k \in 1..Len(matches) |->
                    AddCol(AddCol(row, "Key", <<matches[k].Key>>), "Title", <<matches[k].Title>>)]

RECURSIVE MergeRows(_, _, _)
MergeRows(rows, dim_rows, left_on) ==
    IF rows = <<>> THEN <<>>
    ELSE MergeRow(rows[1], dim_rows, left_on) \o MergeRows(Tail(rows), dim_rows, left_on)

\* one join block: merge, rename Title to the label column, drop Key;
\* skipped when the dimension table is empty
JoinDimension(d, j, dims) ==
    IF dims[j.dim] = EmptyDataFrame
       THEN d
       ELSE LET merged == MergeRows(d.rows, dims[j.dim], j.left_on)
                titleTo == [Title |-> j.label]
            IN  [cols |-> (RenameCols(d.cols \cup {"Key", "Title"}, titleTo)) \ {"Key"},
                 rows |-> [i \in 1..Len(merged) |->
                              DropCol(RenameRow(merged[i], titleTo), "Key")]]

JoinAll(d, dims) ==
    JoinDimension(JoinDimension(JoinDimension(JoinDimension(d, Joins[1], dims),
                                              Joins[2], dims), Joins[3], dims), Joins[4], dims)

\* ---- parsing the period code --------------------------------------------
DigitVal(c) ==
    CASE c = "0" -> 0 [] c = "1" -> 1 [] c = "2" -> 2 [] c = "3" -> 3 [] c = "4" -> 4
      [] c = "5" -> 5 [] c = "6" -> 6 [] c = "7" -> 7 [] c = "8" -> 8 [] c = "9" -> 9

\* `.astype(int)` of a string of digits
RECURSIVE ToInt(_)
ToInt(chars) == IF chars = <<>> THEN 0
                ELSE 10 * ToInt(SubSeq(chars, 1, Len(chars) - 1)) + DigitVal(chars[Len(chars)])

\* `df['Perioden'].str[:4].astype(int)`
Jaar(perioden) == ToInt(SubSeq(perioden, 1, 4))

\* `df['Perioden'].str[-2:].astype(int)`
Kwartaal(perioden) == ToInt(SubSeq(perioden, Len(perioden) - 1, Len(perioden)))

ParseAndRename(d) ==
    [cols |-> RenameCols(d.cols \cup {"Jaar", "Kwartaal"}, column_mapping),
     rows |-> [i \in 1..Len(d.rows) |->
                  RenameRow(AddCol(AddCol(d.rows[i], "Jaar", Jaar(d.rows[i].Perioden)),
                                   "Kwartaal", Kwartaal(d.rows[i].Perioden)),
                            column_mapping)]]

\* ---- validation ---------------------------------------------------------
\* the columns whose cells can be missing: measures and joined labels
NullableCols == {"Nieuwbouw_Aantal", "Doorlooptijd_P10", "Doorlooptijd_P25",
                 "Doorlooptijd_Mediaan", "Doorlooptijd_P75", "Doorlooptijd_P90",
                 "Doorlooptijd_Gemiddelde", "Regio_Naam", "Gebruiksfunctie_Naam",
                 "Woningtype_Naam", "Periode_Naam"}

\* `df.isnull().sum().sum()`
TotalNulls(d) ==
    Cardinality({<<i, c>> \in (1..Len(d.rows)) \X (d.cols \cap NullableCols) :
                    d.rows[i][c] = NaN})

\* `len(df) * len(df.columns)`
TotalCells(d) == Len(d.rows) * Cardinality(d.cols)

\* the values present in a column, in ascending order
RECURSIVE Ascending(_, _, _)
Ascending(d, c, idx) ==
    IF idx = {} THEN <<>>
    ELSE LET i == CHOOSE k \in idx : \A o \in idx : d.rows[k][c][1] <= d.rows[o][c][1]
         IN  <<d.rows[i][c][1]>> \o Ascending(d, c, idx \ {i})

\* four times `Series.quantile(k / 4)` of the sorted values v (linear
\* interpolation between the two nearest ranks)
Quantile4(v, k) ==
    LET pos == (Len(v) - 1) * k
        lo == pos \div 4
        part == pos % 4
    IN  IF part = 0 THEN 4 * v[lo + 1]
        ELSE 4 * v[lo + 1] + part * (v[lo + 2] - v[lo + 1])

\* `df[(df[col] < q1 - 3 * iqr) | (df[col] > q3 + 3 * iqr)]`: the rows
\* outside the fence; a quantile of no values is nan and nothing is outside
Outliers(d, c) ==
    LET idx == {i \in 1..Len(d.rows) : d.rows[i][c] # NaN}
        v == Ascending(d, c, idx)
        q1 == Quantile4(v, 1)
        q3 == Quantile4(v, 3)
        lower_bound == q1 - 3 * (q3 - q1)
        upper_bound == q3 + 3 * (q3 - q1)
    IN  IF idx = {} THEN {}
        ELSE {i \in idx : 4 * d.rows[i][c][1] < lower_bound
                              \/ 4 * d.rows[i][c][1] > upper_bound}

\* the findings step 5 logs (0/0 is nan, and nan compares false)
QualityWarnings(d) ==
    LET years == {d.rows[i].Jaar : i \in 1..Len(d.rows)}
    IN  (IF TotalCells(d) > 0
            /\ TotalNulls(d) * 100 > max_null_percentage_x100 * TotalCells(d)
            THEN {"High null percentage"} ELSE {})
        \cup (IF \E y \in years : y < min_year THEN {"years before min_year"} ELSE {})
        \cup (IF \E y \in years : y > max_year THEN {"years after max_year"} ELSE {})
        \cup (IF \E c \in {"Doorlooptijd_Mediaan", "Doorlooptijd_Gemiddelde"} \cap d.cols :
                    Outliers(d, c) # {}
                 THEN {"Potential outliers"} ELSE {})

\* step 5 as a whole: it assigns nothing to df and raises nothing
Validation_strict(d) ==
    [df |-> [cols |-> d.cols,
             rows |-> SelectSeq(d.rows, LAMBDA r : r.Jaar >= min_year /\ r.Jaar <= max_year)],
     log |-> QualityWarnings(d)]

Validation(d) == [df |-> d, log |-> QualityWarnings(d)]

\* ---- derived metrics ----------------------------------------------------
\* a - b on cells
Minus(a, b) == IF a = NaN \/ b = NaN THEN NaN ELSE <<a[1] - b[1]>>

RECURSIVE GCD(_, _)
GCD(a, b) == IF b = 0 THEN a ELSE GCD(b, a % b)

Abs(x) == IF x < 0 THEN 0 - x ELSE x

\* a / b on cells, as pandas divides floats: nan, +-inf, or the exact
\* quotient as a fraction in lowest terms with a positive denominator
Quotient(a, b) ==
    IF a = NaN \/ b = NaN THEN [kind |-> "nan", num |-> 0, den |-> 1]
    ELSE IF b[1] = 0
            THEN IF a[1] = 0 THEN [kind |-> "nan", num |-> 0, den |-> 1]
                 ELSE IF a[1] > 0 THEN [kind |-> "inf", num |-> 1, den |-> 0]
                 ELSE [kind |-> "inf", num |-> 0 - 1, den |-> 0]
            ELSE LET g == GCD(Abs(a[1]), Abs(b[1]))
                     sgn == IF b[1] < 0 THEN 0 - 1 ELSE 1
                 IN  [kind |-> "number", num |-> sgn * (a[1] \div g),
                      den |-> sgn * (b[1] \div g)]

\* `(df['Doorlooptijd_IQR'] > 10).astype(int)`: a comparison with nan is False
HighVariability_inclusive(iqr) ==
    IF iqr # NaN /\ iqr[1] >= HighVariabilityThreshold THEN 1 ELSE 0

HighVariability(iqr) ==
    IF iqr # NaN /\ iqr[1] > HighVariabilityThreshold THEN 1 ELSE 0

DeriveRow_range(row) ==
    LET iqr == Minus(row.Doorlooptijd_P75, row.Doorlooptijd_P25)
        r1 == AddCol(row, "Doorlooptijd_IQR", iqr)
        r2 == AddCol(r1, "Doorlooptijd_P10_P90_Range",
                     Minus(r1.Doorlooptijd_P90, r1.Doorlooptijd_P10))
        r3 == AddCol(r2, "Hoge_Variabiliteit",
                     HighVariability(r2.Doorlooptijd_P10_P90_Range))
    IN  AddCol(r3, "Doorlooptijd_CV",
               Quotient(r3.Doorlooptijd_IQR, r3.Doorlooptijd_Mediaan))

DeriveRow(row) ==
    LET iqr == Minus(row.Doorlooptijd_P75, row.Doorlooptijd_P25)
        r1 == AddCol(row, "Doorlooptijd_IQR", iqr)
        r2 == AddCol(r1, "Doorlooptijd_P10_P90_Range",
                     Minus(r1.Doorlooptijd_P90, r1.Doorlooptijd_P10))
        r3 == AddCol(r2, "Hoge_Variabiliteit", HighVariability(r2.Doorlooptijd_IQR))
    IN  AddCol(r3, "Doorlooptijd_CV",
               Quotient(r3.Doorlooptijd_IQR, r3.Doorlooptijd_Mediaan))

DeriveMetrics(d) ==
    [cols |-> d.cols \cup {"Doorlooptijd_IQR", "Doorlooptijd_P10_P90_Range",
                           "Hoge_Variabiliteit", "Doorlooptijd_CV"},
     rows |-> [i \in 1..Len(d.rows) |-> DeriveRow(d.rows[i])]]

\* ---- the steps of transform_doorlooptijden --------------------------------
\* `if not fact_file: raise FileNotFoundError`
TrFactFileMissing ==
    /\ tr_pc = "start"
    /\ fact_file = <<>>
    /\ tr_pc' = "raised"
    /\ tr_exc' = "FileNotFoundError"
    /\ UNCHANGED <<fact_file, dim_files, tr_dims, df, tr_warnings>>
    /\ UNCHANGED othersTr

\* step 1: `df = pd.read_csv(fact_file)`
TrLoadFact ==
    /\ tr_pc = "start"
    /\ fact_file # <<>>
    /\ df' = fact_file[1]
    /\ tr_pc' = "dims"
    /\ UNCHANGED <<fact_file, dim_files, tr_dims, tr_exc, tr_warnings>>
    /\ UNCHANGED othersTr

\* step 2: load_dimensions: the file of each dimension, or an empty
\* DataFrame and a warning when there is none
TrLoadDimensions ==
    /\ tr_pc = "dims"
    /\ tr_dims' = [n \in DimNameSet |->
                      IF dim_files[n] = <<>> THEN EmptyDataFrame ELSE dim_files[n][1]]
    /\ tr_warnings' = tr_warnings \cup
                         {<<"Dimension not found", n>> : n \in {m \in DimNameSet : dim_files[m] = <<>>}}
    /\ tr_pc' = "join"
    /\ UNCHANGED <<fact_file, dim_files, df, tr_exc>>
    /\ UNCHANGED othersTr

\* step 3: the four joins
TrJoinDimensions ==
    /\ tr_pc = "join"
    /\ df' = JoinAll(df, tr_dims)
    /\ tr_pc' = "parse"
    /\ UNCHANGED <<fact_file, dim_files, tr_dims, tr_exc, tr_warnings>>
    /\ UNCHANGED othersTr

\* step 4: Jaar, Kwartaal, renamed measure columns
TrParseAndRename ==
    /\ tr_pc = "parse"
    /\ df' = ParseAndRename(df)
    /\ tr_pc' = "validate"
    /\ UNCHANGED <<fact_file, dim_files, tr_dims, tr_exc, tr_warnings>>
    /\ UNCHANGED othersTr

\* step 5: data quality validation, which only logs
TrValidate ==
    /\ tr_pc = "validate"
    /\ tr_warnings' = tr_warnings \cup {<<w, "quality">> : w \in Validation(df).log}
    /\ df' = Validation(df).df
    /\ tr_pc' = "derive"
    /\ UNCHANGED <<fact_file, dim_files, tr_dims, tr_exc>>
    /\ UNCHANGED othersTr

\* step 6: derived metrics
TrDerive ==
    /\ tr_pc = "derive"
    /\ df' = DeriveMetrics(df)
    /\ tr_pc' = "summary"
    /\ UNCHANGED <<fact_file, dim_files, tr_dims, tr_exc, tr_warnings>>
    /\ UNCHANGED othersTr

\* the columns the final summary reads: df['Kwartaal'], df['Regio_Naam'],
\* df['Woningtype_Naam']
SummaryCols == {"Kwartaal", "Regio_Naam", "Woningtype_Naam"}

\* final summary and `return df`
TrReturn ==
    /\ tr_pc = "summary"
    /\ SummaryCols \subseteq df.cols
    /\ tr_pc' = "returned"
    /\ UNCHANGED <<fact_file, dim_files, tr_dims, df, tr_exc, tr_warnings>>
    /\ UNCHANGED othersTr

\* the final summary reads a label column that no join has made
TrSummaryKeyError ==
    /\ tr_pc = "summary"
    /\ ~(SummaryCols \subseteq df.cols)
    /\ tr_pc' = "raised"
    /\ tr_exc' = "KeyError"
    /\ UNCHANGED <<fact_file, dim_files, tr_dims, df, tr_warnings>>
    /\ UNCHANGED othersTr

\* ---- the raw files the transformer may find -------------------------------
Period2023KW01 == <<"2", "0", "2", "3", "K", "W", "0", "1">>

Period2014KW04 == <<"2", "0", "1", "4", "K", "W", "0", "4">>

\* (Regiokenmerken, Gebruiksfunctie, Woningtype, Perioden) of a fact row
CodeTuples == { <<"c1", "c1", "c1", Period2023KW01>>,
                <<"zz", "c2", "zz", Period2014KW04>>,
                <<"c2", "zz", "c1", Period2023KW01>> }

\* (P10, P25, median, P75, P90) of a fact row
MeasureTuples == { << <<2>>, <<5>>, <<10>>, <<15>>, <<20>> >>,
                   << <<2>>, <<5>>, <<10>>, <<16>>, <<30>> >>,
                   << NaN, NaN, NaN, NaN, NaN >>,
                   << <<0>>, <<0>>, <<0>>, <<4>>, <<4>> >> }

RawColumns == {"ID", "Regiokenmerken", "Gebruiksfunctie", "Woningtype", "Perioden",
               "NieuwbouwTotaal_1", "k_10KwantielDoorlooptijdMaanden_2",
               "k_25KwantielDoorlooptijdMaanden_3", "MediaanDoorlooptijdMaanden_4",
               "k_75KwantielDoorlooptijdMaanden_5", "k_90KwantielDoorlooptijdMaanden_6",
               "GemiddeldeDoorlooptijdMaanden_7"}

RawRow(id, codes, m) ==
    [ID |-> id, Regiokenmerken |-> codes[1], Gebruiksfunctie |-> codes[2],
     Woningtype |-> codes[3], Perioden |-> codes[4],
     NieuwbouwTotaal_1 |-> <<1>>,
     k_10KwantielDoorlooptijdMaanden_2 |-> m[1],
     k_25KwantielDoorlooptijdMaanden_3 |-> m[2],
     MediaanDoorlooptijdMaanden_4 |-> m[3],
     k_75KwantielDoorlooptijdMaanden_5 |-> m[4],
     k_90KwantielDoorlooptijdMaanden_6 |-> m[5],
     GemiddeldeDoorlooptijdMaanden_7 |-> m[3]]

\* the dimension files of 86260NED: code -> label, one row per code
DimensionFile(n) ==
    IF n = "perioden"
       THEN <<[Key |-> Period2023KW01, Title |-> "2023 1e kwartaal"]>>
       ELSE <<[Key |-> "c1", Title |-> "t1"], [Key |-> "c2", Title |-> "t2"]>>

\* a fact file of five rows: one of 2014, and one whose median lies outside
\* the fence of the other four
OutlierFactFile ==
    [cols |-> RawColumns,
     rows |-> << RawRow(0, <<"c1", "c1", "c1", Period2023KW01>>,
                        << <<2>>, <<5>>, <<10>>, <<15>>, <<20>> >>),
                 RawRow(1, <<"c2", "c1", "c1", Period2023KW01>>,
                        << <<2>>, <<5>>, <<10>>, <<15>>, <<20>> >>),
                 RawRow(2, <<"c1", "c2", "c1", Period2023KW01>>,
                        << <<2>>, <<5>>, <<10>>, <<16>>, <<30>> >>),
                 RawRow(3, <<"c1", "c1", "c2", Period2014KW04>>,
                        << <<2>>, <<5>>, <<10>>, <<15>>, <<20>> >>),
                 RawRow(4, <<"c2", "c2", "c1", Period2023KW01>>,
                        << <<20>>, <<50>>, <<100>>, <<150>>, <<200>> >>) >>]

InitTransform ==
    /\ \/ fact_file = <<>>
       \/ fact_file = <<OutlierFactFile>>
       \/ \E n \in 0..MaxFactRows :
             \E choice \in [1..n -> CodeTuples \X MeasureTuples] :
                fact_file = << [cols |-> RawColumns,
                                rows |-> [i \in 1..n |->
                                            RawRow(i - 1, choice[i][1], choice[i][2])]] >>
    /\ \E present \in SUBSET DimNameSet :
          dim_files = [n \in DimNameSet |->
                          IF n \in present THEN <<DimensionFile(n)>> ELSE <<>>]
    /\ tr_pc = "start"
    /\ tr_dims = <<>>
    /\ df = [cols |-> {}, rows |-> <<>>]
    /\ tr_exc = "none"
    /\ tr_warnings = {}
    /\ ReqIdle /\ PgIdle /\ GdIdle /\ ClIdle /\ ExIdle /\ TmIdle /\ AnIdle /\ SqIdle /\ EmIdle

NextTransform ==
    \/ TrFactFileMissing
    \/ TrLoadFact
    \/ TrLoadDimensions
    \/ TrJoinDimensions
    \/ TrParseAndRename
    \/ TrValidate
    \/ TrDerive
    \/ TrReturn
    \/ TrSummaryKeyError

SpecTransform == InitTransform /\ [][NextTransform]_vars

-----------------------------------------------------------------------------
(***************************************************************************)
(* Properties of _make_request                                             *)
(***************************************************************************)
Is503(r) == r.kind = "http" /\ r.status = 503

IsTransient(r) == r.kind \in {"timeout", "connection"} \/ (r.kind = "http" /\ r.status >= 500)

IsClientError(r) == r.kind = "http" /\ r.status >= 400 /\ r.status < 500 /\ r.status # 429

Is429(r) == r.kind = "http" /\ r.status = 429

\* the exception requests raises for a failed attempt
ExcOf(r) ==
    IF r.kind = "timeout" THEN TimeoutExc
    ELSE IF r.kind = "connection" THEN ConnectionErrorExc
    ELSE HTTPError(r.status)

\* base^0 + base^1 + ... + base^(k-1)
RECURSIVE GeomSum(_)
GeomSum(k) == IF k = 0 THEN 0 ELSE GeomSum(k - 1) + retry_delay_base ^ (k - 1)

\* C2: k <= max_retries consecutive 503 responses followed by a 200: the call
\* is still running after the 503s, and after the 200 it has returned that
\* response's body after exactly k retries, having slept base^0 + ... + base^(k-1).
C2_RetryThenSuccess ==
    \A k \in 0..max_retries :
        /\ (Len(resps) = k /\ \A i \in 1..k : Is503(resps[i]))
              => (req_pc = "calling" /\ retry_count = k)
        /\ (/\ Len(resps) = k + 1
            /\ \A i \in 1..k : Is503(resps[i])
            /\ resps[k + 1].status = 200)
              => /\ req_pc = "returned"
                 /\ req_result = resps[k + 1].body
                 /\ retry_count = k
                 /\ Len(sleeps) = k
                 /\ SumSeq(sleeps) = GeomSum(k)

C2_Witness ==
    /\ req_pc = "returned"
    /\ max_retries >= 2
    /\ Len(resps) = max_retries + 1
    /\ \A i \in 1..max_retries : Is503(resps[i])
    /\ SumSeq(sleeps) = GeomSum(max_retries)

\* C3: when every attempt fails with a timeout, a connection error or a 5xx,
\* there are never more than max_retries + 1 requests, the call never returns,
\* and it ends exactly at request max_retries + 1 by raising the failure of
\* that last attempt.
C3_ExhaustionRaises ==
    (resps # <<>> /\ \A i \in 1..Len(resps) : IsTransient(resps[i]))
        => /\ Len(resps) <= max_retries + 1
           /\ req_pc # "returned"
           /\ req_result = "none"
           /\ (req_pc = "raised") = (Len(resps) = max_retries + 1)
           /\ req_pc = "raised" => /\ retry_count = max_retries
                                   /\ req_exc = ExcOf(Last(resps))

C3_Witness ==
    /\ req_pc = "raised"
    /\ max_retries >= 2
    /\ Len(resps) = max_retries + 1
    /\ \A i \in 1..Len(resps) : IsTransient(resps[i])
    /\ req_exc = TimeoutExc
    /\ Is503(resps[1])

\* C4: a 4xx response other than 429 ends the call at once: the HTTP error is
\* raised, no request follows it, and no sleep is made for it (every sleep
\* belongs to an earlier, retried response); as the first response it leaves
\* exactly one request and no sleep at all.
C4_ClientErrorNoRetry ==
    /\ \A i \in 1..Len(resps) : IsClientError(resps[i]) => i = Len(resps)
    /\ (resps # <<>> /\ IsClientError(Last(resps)))
          => /\ req_pc = "raised"
             /\ req_exc = HTTPError(Last(resps).status)
             /\ Len(sleeps) = Len(resps) - 1
             /\ retry_count = Len(resps) - 1

C4_Witness ==
    /\ req_pc = "raised"
    /\ Len(resps) = 1
    /\ resps[1].status = 404
    /\ sleeps = <<>>
    /\ max_retries >= 1

\* C5: every 429 is followed by a sleep of rate_limit_delay; the 429 is
\* retried while fewer than max_retries retries have been used (the same
\* counter as the other faults) and raised once they are used up.
C5_RateLimit ==
    /\ \A i \in 1..Len(resps) :
          Is429(resps[i]) => (i <= Len(sleeps) /\ sleeps[i] = rate_limit_delay)
    /\ (resps # <<>> /\ Is429(Last(resps)))
          => IF Len(resps) <= max_retries
                THEN req_pc = "calling" /\ retry_count = Len(resps)
                ELSE /\ req_pc = "raised"
                     /\ req_exc = HTTPError(429)
                     /\ Len(resps) = max_retries + 1

C5_Witness ==
    /\ req_pc = "raised"
    /\ max_retries >= 2
    /\ Is503(resps[1])
    /\ Is429(resps[2])
    /\ Is429(Last(resps))
    /\ Len(resps) = max_retries + 1

-----------------------------------------------------------------------------
(***************************************************************************)
(* Properties of get_data_paginated                                        *)
(***************************************************************************)
\* the row cap in force: max_rows when it is given and not 0
HasCap == max_rows # <<>> /\ max_rows[1] # 0

ExpectedRows == IF HasCap THEN Min(server_rows, max_rows[1]) ELSE server_rows

\* the data ran out exactly at a page boundary before any cap was reached
EndsOnEmptyPage ==
    /\ server_rows % batch_size = 0
    /\ (~HasCap \/ server_rows < max_rows[1])

\* C1 as stated: rows = min(N, max_rows), requests = ceil(min(N, max_rows) / P)
C1_AsStated ==
    pg_pc = "done" =>
        LET want == IF max_rows = <<>> THEN server_rows ELSE Min(server_rows, max_rows[1])
        IN  /\ Len(result_df) = want
            /\ Len(page_log) = CeilDiv(want, batch_size)

\* C1 (amended): the rows returned are the first min(N, max_rows) rows of the
\* server (N when max_rows is None or 0); the number of page requests is
\* ceil(that / P), plus one request that comes back empty when the data ends
\* exactly on a page boundary below the cap.
C1_PaginationCounts ==
    pg_pc = "done" =>
        /\ result_df = RowRange(1, ExpectedRows)
        /\ Len(page_log) = CeilDiv(ExpectedRows, batch_size)
                              + (IF EndsOnEmptyPage THEN 1 ELSE 0)

C1_Witness ==
    /\ pg_pc = "done"
    /\ max_rows = <<>>
    /\ server_rows = 2 * batch_size
    /\ Len(result_df) = server_rows
    /\ Len(page_log) = 3

\* the offset of the k-th page request, and the rows received before it
OffsetOf(k) == page_log[k][2]

ReceivedBefore(k) == SumSeq([j \in 1..(k - 1) |-> Len(all_data[j])])

\* C20: the first page is requested at offset 0 and each later page at the
\* number of rows received so far, so the offsets increase strictly, none is
\* requested twice and no row is passed over; the result is the pages joined
\* in the order of their requests.
C20_IncreasingOffsets ==
    /\ Len(all_data) <= Len(page_log)
    /\ Len(page_log) <= Len(all_data) + 1
    /\ \A k \in 1..Len(page_log) : OffsetOf(k) = ReceivedBefore(k)
    /\ page_log # <<>> => OffsetOf(1) = 0
    /\ \A k \in 2..Len(page_log) : OffsetOf(k) > OffsetOf(k - 1)
    /\ \A j \in 1..Len(all_data) : \A i \in 1..Len(all_data[j]) :
          all_data[j][i] = OffsetOf(j) + i
    /\ pg_pc = "done" =>
          /\ Len(result_df) = ReceivedBefore(Len(all_data) + 1)
          /\ \A j \in 1..Len(all_data) : \A i \in 1..Len(all_data[j]) :
                result_df[ReceivedBefore(j) + i] = all_data[j][i]

\* three pages have been requested, at offsets 0, P and 2 * P, and the
\* result holds the rows of all three
C20_Witness ==
    /\ pg_pc = "done"
    /\ Len(page_log) = 3
    /\ Len(all_data) = 3
    /\ OffsetOf(2) = batch_size
    /\ OffsetOf(3) = 2 * batch_size
    /\ Len(result_df) > 2 * batch_size

-----------------------------------------------------------------------------
(***************************************************************************)
(* Properties of get_all_dimensions                                        *)
(***************************************************************************)
NonDimensionEndpoints == {"TableInfos", "UntypedDataSet", "TypedDataSet",
                          "DataProperties", "CategoryGroups"}

ListedDimensions == {endpoints[i] : i \in 1..Len(endpoints)} \ NonDimensionEndpoints

\* C6: get_all_dimensions returns an entry for exactly the listed endpoints
\* that are not excluded, no excluded endpoint is ever fetched, a dimension
\* whose fetch raised is an empty table in the result, and a failed fetch
\* neither raises out of the call nor stops the later fetches (every listed
\* dimension has been fetched once when the call returns).
C6_AllDimensions ==
    /\ \A i \in 1..Len(fetched) : fetched[i].name \notin NonDimensionEndpoints
    /\ gd_pc = "raised" => fetched = <<>>
    /\ gd_pc = "returned" =>
          /\ DOMAIN dimensions = ListedDimensions
          /\ {fetched[i].name : i \in 1..Len(fetched)} = ListedDimensions
          /\ Len(fetched) = Cardinality(ListedDimensions)
          /\ \A i \in 1..Len(fetched) :
                /\ dimensions[fetched[i].name] = fetched[i].df
                /\ fetched[i].outcome = "raised"
                      => dimensions[fetched[i].name] = EmptyDataFrame

C6_Witness ==
    /\ gd_pc = "returned"
    /\ Len(fetched) = 3
    /\ fetched[1].outcome = "raised"
    /\ fetched[2].outcome = "ok" /\ fetched[2].df # EmptyDataFrame
    /\ fetched[3].outcome = "raised"
    /\ "CategoryGroups" \in {endpoints[i] : i \in 1..Len(endpoints)}

-----------------------------------------------------------------------------
(***************************************************************************)
(* Properties of cleanup_old_extractions                                   *)
(***************************************************************************)
\* the directory as it was before the cleanup
DirBefore == raw_dir \cup removed

\* the .csv/.parquet files that carry a timestamp
Stamped(dir) == {f \in dir : f.suffix \in {".csv", ".parquet"}
                             /\ ExtractTimestamp(f) # NoTimestamp}

ChronologicallyAfter(t, u) == t[1] > u[1] \/ (t[1] = u[1] /\ t[2] > u[2])

\* number of timestamps in the directory that are newer than t
NewerCount(t) ==
    Cardinality({u \in {ExtractTimestamp(f) : f \in Stamped(DirBefore)} :
                    ChronologicallyAfter(u, t)})

\* C7: after cleanup_old_extractions(keep_last_n = N), the timestamped
\* .csv/.parquet files of one timestamp have all stayed or have all gone, and
\* the ones that stayed are exactly those of the N newest timestamps.
C7_CleanupByTimestamp ==
    cl_pc = "done" =>
        /\ \A f \in Stamped(DirBefore) : \A g \in Stamped(DirBefore) :
              ExtractTimestamp(f) = ExtractTimestamp(g)
                 => (f \in raw_dir <=> g \in raw_dir)
        /\ Stamped(raw_dir) =
              {f \in Stamped(DirBefore) : NewerCount(ExtractTimestamp(f)) < keep_last_n}
        /\ raw_dir \cap removed = {}

\* a partial extraction (its fact csv only) is the newest and is kept, an
\* older complete one and an older partial one are deleted
C7_Witness ==
    /\ cl_pc = "done"
    /\ keep_last_n = 1
    /\ Stamped(raw_dir) = {File(FactStem(<<20260221, 90000>>), ".csv")}
    /\ ExtractionFiles(<<20260220, 205140>>) \subseteq removed
    /\ Cardinality(removed) = 4

\* the name has an 8-digit part directly followed by a 6-digit part
NameHasTimestamp(f) ==
    \E i \in 1..(Len(f.stem) - 1) :
        /\ f.stem[i].digit /\ f.stem[i].len = 8
        /\ f.stem[i + 1].digit /\ f.stem[i + 1].len = 6

\* the distinct timestamps the directory held before the cleanup
DistinctTimestamps == {ExtractTimestamp(f) : f \in Stamped(DirBefore)}

\* C29: cleanup_old_extractions deletes no file whose name has no
\* YYYYMMDD_HHMMSS timestamp, no file whose suffix is neither .csv nor
\* .parquet, and no file at all when the directory holds at most keep_last_n
\* distinct timestamps.
C29_OnlyOldExtractionFiles ==
    /\ \A f \in removed : NameHasTimestamp(f) /\ f.suffix \in {".csv", ".parquet"}
    /\ Cardinality(DistinctTimestamps) <= keep_last_n => removed = {}
    /\ cl_pc = "done" =>
          \A f \in DirBefore :
              (~NameHasTimestamp(f) \/ f.suffix \notin {".csv", ".parquet"})
                 => f \in raw_dir

\* an old extraction has been deleted while the .log file of the same
\* timestamp, the file without a timestamp and the file with a date but no
\* time have stayed
C29_Witness ==
    /\ cl_pc = "done"
    /\ keep_last_n = 2
    /\ ExtractionFiles(<<20260220, 205059>>) \subseteq removed
    /\ OtherFiles \subseteq raw_dir
    /\ Cardinality(DistinctTimestamps) = 3

-----------------------------------------------------------------------------
(* The retry budget of one _make_request call *)

\* a response that is a fault: a timeout, a connection error or an HTTP error
IsFault(r) == r.kind # "http" \/ r.status # 200

\* the HTTP requests of the call never exceed max_retries + 1, and the
\* counter is the number of faults answered with a retry, whatever their kind
C27_State ==
    /\ Len(resps) <= max_retries + 1
    /\ retry_count <= max_retries
    /\ Len(resps) = retry_count + (IF req_pc = "calling" THEN 0 ELSE 1)
    /\ \A i \in 1..retry_count : IsFault(resps[i])

\* the counter stays, or goes up by one on the retry after a fault
C27_Step ==
    \/ retry_count' = retry_count
    \/ /\ retry_count' = retry_count + 1
       /\ resps' = Append(resps, Last(resps'))
       /\ IsFault(Last(resps'))

C27_Ended == req_pc \in {"returned", "raised"}

\* C27: whatever mix of timeouts, connection errors, 5xx and 429 responses
\* the server gives, one _make_request call ends after at most
\* max_retries + 1 HTTP requests; the retry counter is shared by the fault
\* kinds, goes up by one on every retry and is never reset within the call.
C27_BoundedRetries == []C27_State /\ [][C27_Step]_vars /\ <>C27_Ended

\* a call with max_retries = 3 that met all four fault kinds and raised at
\* its fourth request
C27_Witness ==
    /\ req_pc = "raised"
    /\ max_retries = 3
    /\ retry_count = 3
    /\ Len(resps) = 4
    /\ {resps[i].kind : i \in 1..4} = {"timeout", "connection", "http"}
    /\ {429, 503} \subseteq {resps[i].status : i \in 1..4}

-----------------------------------------------------------------------------
(* The requests of the pages of get_data_paginated *)

\* a page request is using what its own call has counted, and a failed fetch
\* has returned nothing
C28_State ==
    /\ (pg_pc = "page" /\ req_pc = "calling") =>
          /\ retry_count = Len(resps)
          /\ retry_count <= max_retries
    /\ pg_pc = "raised" =>
          /\ req_pc = "raised"
          /\ req_exc # NoExc
          /\ result_df = <<>>

\* a page request starts at retry count 0, and a page request that has
\* raised ends the fetch without a result
C28_Step ==
    /\ (req_pc # "calling" /\ req_pc' = "calling") => retry_count' = 0
    /\ (pg_pc = "page" /\ req_pc = "raised") =>
          (pg_pc' = "raised" /\ result_df' = <<>> /\ req_exc' = req_exc)

\* C28: every page request of get_data_paginated starts with a fresh retry
\* budget, whatever earlier pages used, and when a page request finally
\* fails its exception leaves get_data_paginated: the rows of the pages
\* already fetched are not returned.
C28_FreshBudgetNoPartial == []C28_State /\ [][C28_Step]_vars

\* max_retries = 1: the first page came after one retry, the second page
\* was retried once too and then failed; one batch was fetched, none returned
C28_Witness ==
    /\ pg_pc = "raised"
    /\ max_retries = 1
    /\ Len(page_log) = 2
    /\ Len(all_data) = 1
    /\ Len(sleeps) = 2
    /\ Len(resps) = 2
    /\ result_df = <<>>

-----------------------------------------------------------------------------
(***************************************************************************)
(* Properties of the extraction methods                                    *)
(***************************************************************************)
WrittenSet == {ex_written[i] : i \in 1..Len(ex_written)}

\* position of the first write of a file in ex_written
FirstWrite(f) == CHOOSE i \in 1..Len(ex_written) :
                    ex_written[i] = f /\ \A j \in 1..(i - 1) : ex_written[j] # f

\* C8: for each of the two datasets, when every API request has succeeded the
\* method has returned (it has not raised), every dimension table and the
\* fact table are in RAW_DATA_DIR as .csv and .parquet files carrying the
\* extractor's timestamp, and every dimension file was written before the
\* fact files.
C8_ExtractionPersists ==
    (ex_pc \in {"returned", "raised"} /\ ~ex_api_failed) =>
        LET factFiles == SavedFiles(FactFileStem(ex_dataset, ex_timestamp))
            dimFiles == UNION {{SavedFiles(DimFileStem(n, TableId(ex_dataset), ex_timestamp))[k]
                                   : k \in 1..2} : n \in DOMAIN ex_dimensions}
        IN  /\ ex_pc = "returned"
            /\ ex_exc = "none"
            /\ dimFiles \cup {factFiles[1], factFiles[2]} \subseteq raw_dir
            /\ WrittenSet = dimFiles \cup {factFiles[1], factFiles[2]}
            /\ \A f \in WrittenSet : ExtractTimestamp(f) = ex_timestamp
            /\ \A d \in dimFiles : FirstWrite(d) < FirstWrite(factFiles[1])

\* the method has come to the point where it builds its period filter
FactStepReached == ex_filter # <<>> \/ ex_exc = "ValueError"

\* C21: for both datasets the period filter of the fact request is the one
\* derived from the dataset descriptor's start year, end year and configured
\* granularity (quarter KW01..KW04, month MM01..MM12, year JJ00..JJ00), and a
\* configured granularity outside month/quarter/year is rejected with a
\* ValueError.
C21_PeriodFilter ==
    (ex_pc \in {"returned", "raised"} /\ FactStepReached) =>
        LET d == DescriptorYears(ex_dataset)
            derived == build_period_filter(d.start_year, d.end_year, ex_granularity)
        IN  IF derived.type = "ValueError"
               THEN ex_pc = "raised" /\ ex_exc = "ValueError"
               ELSE ex_filter = <<derived>>

-----------------------------------------------------------------------------
(***************************************************************************)
(* Properties of transform_doorlooptijden                                  *)
(***************************************************************************)
\* the joins have been made
PastJoin ==
    \/ tr_pc \in {"parse", "validate", "derive", "summary", "returned"}
    \/ tr_pc = "raised" /\ tr_exc = "KeyError"

\* the derived metrics have been made
PastDerive ==
    \/ tr_pc \in {"summary", "returned"}
    \/ tr_pc = "raised" /\ tr_exc = "KeyError"

\* the label the dimension file gives to a code
TitleOf(dim_rows, code) ==
    LET r == CHOOSE k \in 1..Len(dim_rows) : dim_rows[k].Key = code
    IN  dim_rows[r].Title

IsC10Row(row) ==
    /\ row.Doorlooptijd_P25 = <<5>>
    /\ row.Doorlooptijd_P75 = <<15>>
    /\ row.Doorlooptijd_Mediaan = <<10>>

One == [kind |-> "number", num |-> 1, den |-> 1]

\* C10 as stated: IQR = 10, CV = 1.0 and flag = 1
C10_AsStated ==
    PastDerive =>
        \A i \in 1..Len(df.rows) :
            IsC10Row(df.rows[i]) =>
                /\ df.rows[i].Doorlooptijd_IQR = <<10>>
                /\ df.rows[i].Doorlooptijd_CV = One
                /\ df.rows[i].Hoge_Variabiliteit = 1

\* C10 (amended): a row with P25 = 5, P75 = 15 and median = 10 has IQR = 10,
\* CV = 1.0 and high-variability flag 0, whatever the other rows of the table are.
C10_DerivedMetrics ==
    PastDerive =>
        \A i \in 1..Len(df.rows) :
            IsC10Row(df.rows[i]) =>
                /\ df.rows[i].Doorlooptijd_IQR = <<10>>
                /\ df.rows[i].Doorlooptijd_CV = One
                /\ df.rows[i].Hoge_Variabiliteit = 0

C10_Witness ==
    /\ tr_pc = "returned"
    /\ Len(df.rows) = 2
    /\ IsC10Row(df.rows[1])
    /\ df.rows[1].Hoge_Variabiliteit = 0
    /\ df.rows[2].Doorlooptijd_P75 = <<16>>
    /\ df.rows[2].Hoge_Variabiliteit = 1

\* P75 - P25 of a processed row is a number greater than 10
IqrAboveTen(row) ==
    /\ row.Doorlooptijd_P75 # NaN
    /\ row.Doorlooptijd_P25 # NaN
    /\ row.Doorlooptijd_P75[1] - row.Doorlooptijd_P25[1] > 10

\* C22: the high-variability flag of a processed row is 1 exactly when the
\* row's IQR (P75 - P25) is strictly greater than 10 and 0 otherwise; an IQR
\* of exactly 10 gives 0.
C22_HighVariabilityFlag ==
    PastDerive =>
        \A i \in 1..Len(df.rows) :
            /\ df.rows[i].Hoge_Variabiliteit \in {0, 1}
            /\ df.rows[i].Hoge_Variabiliteit = 1 <=> IqrAboveTen(df.rows[i])

\* a processed table with a row of IQR 10 (flag 0), one of IQR 11 (flag 1)
\* or one without quantiles (flag 0)
C22_Witness ==
    /\ tr_pc = "returned"
    /\ \E i \in 1..Len(df.rows) :
          /\ df.rows[i].Doorlooptijd_P25 = <<5>>
          /\ df.rows[i].Doorlooptijd_P75 = <<15>>
          /\ df.rows[i].Hoge_Variabiliteit = 0
    /\ \E j \in 1..Len(df.rows) :
          \/ df.rows[j].Doorlooptijd_IQR = <<11>> /\ df.rows[j].Hoge_Variabiliteit = 1
          \/ df.rows[j].Doorlooptijd_IQR = NaN /\ df.rows[j].Hoge_Variabiliteit = 0

\* step 5 has been run
PastValidate ==
    \/ tr_pc \in {"derive", "summary", "returned"}
    \/ tr_pc = "raised" /\ tr_exc = "KeyError"

\* the working table has the rows of the fact file, one for one, with the
\* measures as they were read
C26_State ==
    PastValidate =>
        LET raw == fact_file[1].rows
        IN  /\ Len(df.rows) = Len(raw)
            /\ \A i \in 1..Len(raw) :
                  /\ df.rows[i].ID = raw[i].ID
                  /\ df.rows[i].Perioden = raw[i].Perioden
                  /\ df.rows[i].Doorlooptijd_Mediaan = raw[i].MediaanDoorlooptijdMaanden_4
                  /\ df.rows[i].Doorlooptijd_P25 = raw[i].k_25KwantielDoorlooptijdMaanden_3
                  /\ df.rows[i].Doorlooptijd_P75 = raw[i].k_75KwantielDoorlooptijdMaanden_5

\* the validation step goes on to the derived metrics with the table it got
C26_Step ==
    tr_pc = "validate" => (tr_pc' = "derive" /\ tr_exc' = "none" /\ df' = df)

\* C26: the data-quality findings of the transformer (null percentage above
\* the threshold, years outside min_year..max_year, values outside the
\* 3*IQR fence) only log: the step never raises and removes or changes no
\* row, so the processed table has the rows it has without any finding.
C26_QualityOnlyLogs == []C26_State /\ [][C26_Step]_vars

\* five rows with a year before min_year and an outlier: both findings are
\* logged and the five rows are returned
C26_Witness ==
    /\ tr_pc = "returned"
    /\ <<"Potential outliers", "quality">> \in tr_warnings
    /\ <<"years before min_year", "quality">> \in tr_warnings
    /\ Len(df.rows) = 5
    /\ df.rows[4].Jaar = 2014
    /\ df.rows[5].Doorlooptijd_Mediaan = <<100>>

\* the dimensions whose file is absent
AbsentDimensions == {n \in DimNameSet : dim_files[n] = <<>>}

\* C11: with no raw fact file the call raises FileNotFoundError; with the
\* fact file present and the file of exactly one dimension absent, the call
\* logs a warning for that dimension, makes no label column for it, never
\* raises, and returns the processed table.
C11_MissingInputs ==
    /\ (fact_file = <<>> /\ tr_pc # "start")
          => (tr_pc = "raised" /\ tr_exc = "FileNotFoundError")
    /\ \A n \in DimNameSet :
          (fact_file # <<>> /\ AbsentDimensions = {n}) =>
             /\ tr_pc # "raised"
             /\ PastJoin =>
                   /\ <<"Dimension not found", n>> \in tr_warnings
                   /\ Joins[CHOOSE k \in 1..Len(Joins) : Joins[k].dim = n].label \notin df.cols
                   /\ Len(df.rows) = Len(fact_file[1].rows)

-----------------------------------------------------------------------------
(***************************************************************************)
(* HousingStatisticalAnalyzer                                              *)
(*                                                                         *)
(* The two processed tables are DataFrames as above.  A housing-type name  *)
(* is the sequence of its characters; the other labels are strings.  A     *)
(* result file holds the records written to it.                            *)
(***************************************************************************)
\* PROCESSED_DIR / '<dataset>_latest.csv'
LatestFile(dataset) ==
    [dataset |-> dataset, kind |-> "latest", ts |-> <<0, 0>>, suffix |-> ".csv"]

\* a file of a directory is written (created or overwritten)
WriteFile(dir, name, content) ==
    [f \in (DOMAIN dir) \cup {name} |-> IF f = name THEN content ELSE dir[f]]

NoError == [type |-> "none", msg |-> "", detail |-> <<>>]

ValueError(msg) == [type |-> "ValueError", msg |-> msg, detail |-> <<>>]

FileNotFoundError(msg) == [type |-> "FileNotFoundError", msg |-> msg, detail |-> <<>>]

\* what one analysis does: the files it writes, the warnings it logs and
\* the exception it ends with (NoError when it returns)
Outcome(files, log, exc) == [files |-> files, log |-> log, exc |-> exc]

ResultFile(name, content) == [name |-> name, content |-> content]

\* _check_columns
CheckColumns(d, required_cols, dataset_name) ==
    IF required_cols \subseteq d.cols
       THEN NoError
       ELSE [type |-> "ValueError", msg |-> "Missing columns", detail |-> <<dataset_name>>]

\* the rows of d that satisfy keep, in order
Rows(d, keep(_)) == SelectSeq(d.rows, keep)

\* `.dropna(subset=cols)`
DropNa(d, cols) ==
    [cols |-> d.cols, rows |-> Rows(d, LAMBDA r : \A c \in cols : r[c] # NaN)]

\* the values of a column, in row order
Column(d, c) == [i \in 1..Len(d.rows) |-> d.rows[i][c]]

\* the group keys of `.groupby(key)` for a label column: a missing key makes
\* no group
GroupKeys(d, c) == {d.rows[i][c] : i \in 1..Len(d.rows)} \ {NaN}

\* the group keys of `.groupby(key)` for an integer column
IntGroupKeys(d, c) == {d.rows[i][c] : i \in 1..Len(d.rows)}

\* ---- analysis 1: temporal trend ------------------------------------------
\* `len(yearly) < 2`
TooFewYears(n) == n < 2

analyze_temporal_trend(dl) ==
    LET chk == CheckColumns(dl, {"Jaar", "Doorlooptijd_Mediaan"}, "doorlooptijden")
        yearly == IntGroupKeys(DropNa(dl, {"Doorlooptijd_Mediaan"}), "Jaar")
    IN  IF chk # NoError THEN Outcome(<<>>, <<>>, chk)
        ELSE IF TooFewYears(Cardinality(yearly))
           THEN Outcome(<<>>, <<>>,
                        ValueError("Not enough yearly observations for regression"))
        ELSE Outcome(<< ResultFile("1_temporal_regression.csv",
                                   <<"slope", "intercept", "r_squared", "p_value",
                                     "significant">>) >>,
                     <<>>, NoError)

\* ---- analysis 2: regional ANOVA ------------------------------------------
\* Each statistic is modelled by the regions whose observations enter its
\* computation.
\* the regions that make a group of the ANOVA: `if len(grp) >= 2`
AnovaGroups(df_clean) ==
    {g \in GroupKeys(df_clean, "Regio_Naam") :
        Len(Rows(df_clean, LAMBDA r : r.Regio_Naam = g)) >= 2}

analyze_regional_anova(dl) ==
    LET chk == CheckColumns(dl, {"Regio_Naam", "Doorlooptijd_Mediaan"}, "doorlooptijden")
        df_clean == DropNa(dl, {"Doorlooptijd_Mediaan", "Regio_Naam"})
        groups == AnovaGroups(df_clean)
    IN  IF chk # NoError THEN Outcome(<<>>, <<>>, chk)
        ELSE IF Cardinality(groups) < 2
           THEN Outcome(<<>>, <<>>,
                        ValueError("Need at least 2 regions with sufficient data for ANOVA"))
        ELSE Outcome(<< ResultFile("2_regional_anova.csv",
                                   <<[test |-> "one_way_anova",
                                      f_statistic |-> groups,
                                      p_value |-> groups,
                                      eta_squared |-> GroupKeys(df_clean, "Regio_Naam")]>>),
                        ResultFile("2_regional_anova_posthoc.csv",
                                   <<[test |-> "tukey_hsd",
                                      groups |-> GroupKeys(df_clean, "Regio_Naam")]>>) >>,
                     <<>>, NoError)

\* ---- analysis 3: bottleneck ranking --------------------------------------
BottleneckColumns == {"Regio_Naam", "Bottleneck_2Jaar_Pct", "Bottleneck_5Jaar_Pct",
                      "Vergunning_Fase_Pct", "Bouw_Fase_Pct", "Crisis_Regio"}

\* the rows of a group that have a value in column c
GroupValueRows(d, key, g, c) ==
    {i \in 1..Len(d.rows) : d.rows[i][key] = g /\ d.rows[i][c] # NaN}

RECURSIVE SumOfRows(_, _, _)
SumOfRows(d, c, idx) ==
    IF idx = {} THEN 0
    ELSE LET i == CHOOSE k \in idx : TRUE
         IN  d.rows[i][c][1] + SumOfRows(d, c, idx \ {i})

\* `.round(2)` of total / count, in hundredths (round half to even)
Hundredths(total, count) ==
    LET q == (100 * total) \div count
        r == (100 * total) % count
    IN  IF 2 * r > count \/ (2 * r = count /\ q % 2 = 1) THEN q + 1 ELSE q

\* `.agg(mean)` and `.round(2)`: the mean skips missing values and is nan
\* for a group that has no value
RoundedMean(d, key, g, c) ==
    LET idx == GroupValueRows(d, key, g, c)
    IN  IF idx = {} THEN NaN ELSE <<Hundredths(SumOfRows(d, c, idx), Cardinality(idx))>>

\* `sort_values('Bottleneck_2Jaar_Pct_Avg', ascending=False)`: larger values
\* first, nan last; the order of equal values is not specified (quicksort)
ComesFirst(a, b) == b = NaN \/ (a # NaN /\ a[1] >= b[1])

RECURSIVE SortedDescending(_, _)
SortedDescending(keys, avg) ==
    IF keys = {} THEN {<<>>}
    ELSE UNION { {<<g>> \o rest : rest \in SortedDescending(keys \ {g}, avg)} :
                    g \in {k \in keys : \A o \in keys : ComesFirst(avg[k], avg[o])} }

\* the orders the sort may leave the regions of the table in
RankOrders(pj) ==
    IF ~(BottleneckColumns \subseteq pj.cols) THEN {<<>>}
    ELSE LET regions == GroupKeys(pj, "Regio_Naam")
         IN  SortedDescending(regions,
                 [g \in regions |-> RoundedMean(pj, "Regio_Naam", g, "Bottleneck_2Jaar_Pct")])

\* `summary['Rank'] = range(1, len(summary) + 1)`
RankedSummary(pj, order) ==
    [k \in 1..Len(order) |->
        [Rank |-> k, Regio_Naam |-> order[k],
         Bottleneck_2Jaar_Pct_Avg |->
             RoundedMean(pj, "Regio_Naam", order[k], "Bottleneck_2Jaar_Pct")]]

\* `summary.head(10)`
Head10(summary) == SubSeq(summary, 1, IF Len(summary) < 10 THEN Len(summary) ELSE 10)

\* the summary is written first; the interpretation of rank 1 then computes
\* round(100 / max(pct, 0.01)), and round() of nan is a ValueError
quantify_bottlenecks(pj, order) ==
    LET chk == CheckColumns(pj, BottleneckColumns, "woningen_pijplijn")
        ranked == RankedSummary(pj, order)
        summary == ResultFile("3_bottleneck_summary.csv", ranked)
    IN  IF chk # NoError THEN Outcome(<<>>, <<>>, chk)
        ELSE IF ranked # <<>> /\ ranked[1].Bottleneck_2Jaar_Pct_Avg = NaN
           THEN Outcome(<<summary>>, <<>>,
                        ValueError("cannot convert float NaN to integer"))
        ELSE Outcome(<< summary, ResultFile("3_bottleneck_top10_crisis.csv", Head10(ranked)) >>,
                     <<>>, NoError)

\* ---- analysis 4: housing-type t-test -------------------------------------
\* str.lower() on one character
Lower(c) ==
    CASE c = "E" -> "e" [] c = "M" -> "m" [] c = "T" -> "t" [] c = "G" -> "g"
      [] c = "W" -> "w" [] OTHER -> c

LowerAll(str) == [i \in 1..Len(str) |-> Lower(str[i])]

\* `.str.contains(pat, case=False)`
ContainsNoCase(str, pat) ==
    \E i \in 1..(Len(str) - Len(pat) + 1) :
        SubSeq(LowerAll(str), i, i + Len(pat) - 1) = LowerAll(pat)

Eengezins == <<"E", "e", "n", "g", "e", "z", "i", "n", "s">>

Meergezins == <<"M", "e", "e", "r", "g", "e", "z", "i", "n", "s">>

Totaal == <<"T", "o", "t", "a", "a", "l">>

\* the months of the rows of one housing type: the values of group_een / group_meer
TypeGroup(dl, pat) ==
    LET df_filtered == DropNa([cols |-> dl.cols,
                               rows |-> Rows(dl, LAMBDA r : r.Woningtype_Naam # <<Totaal>>)],
                              {"Doorlooptijd_Mediaan", "Woningtype_Naam"})
        sel == Rows(df_filtered, LAMBDA r : ContainsNoCase(r.Woningtype_Naam[1], pat))
    IN  [i \in 1..Len(sel) |-> sel[i].Doorlooptijd_Mediaan[1]]

\* `len(group_een) < 2 or len(group_meer) < 2`
NotEnoughSamples_both(n_een, n_meer) == n_een < 2 /\ n_meer < 2

NotEnoughSamples(n_een, n_meer) == n_een < 2 \/ n_meer < 2

RECURSIVE SumSq(_)
SumSq(xs) == IF xs = <<>> THEN 0 ELSE xs[1] * xs[1] + SumSq(Tail(xs))

\* std(ddof=1) ** 2 of xs is VarNum(xs) / VarDen(xs)
VarNum(xs) == Len(xs) * SumSq(xs) - SumSeq(xs) * SumSeq(xs)

VarDen(xs) == Len(xs) * (Len(xs) - 1)

\* mean(a) - mean(b) is MeanDiffNum(a, b) / (len(a) * len(b))
MeanDiffNum(a, b) == SumSeq(a) * Len(b) - SumSeq(b) * Len(a)

Sign(x) == IF x > 0 THEN 1 ELSE IF x < 0 THEN 0 - 1 ELSE 0

\* `cohens_d = mean_diff / pooled_std if pooled_std > 0 else 0.0`, kept exact:
\* the sign of d and d * d = sq_num / sq_den
cohens_d(a, b) ==
    LET pooled_num == VarNum(a) * VarDen(b) + VarNum(b) * VarDen(a)
        pooled_den == 2 * VarDen(a) * VarDen(b)
    IN  IF pooled_num > 0
           THEN [sign |-> Sign(MeanDiffNum(a, b)),
                 sq_num |-> MeanDiffNum(a, b) * MeanDiffNum(a, b) * pooled_den,
                 sq_den |-> pooled_num * Len(a) * Len(b) * Len(a) * Len(b)]
           ELSE [sign |-> 0, sq_num |-> 0, sq_den |-> 1]

\* the bins of abs_d: >= 0.8, >= 0.5, below
effect_label(d) ==
    IF d.sq_num * 100 >= 64 * d.sq_den THEN "large effect size"
    ELSE IF d.sq_num * 100 >= 25 * d.sq_den THEN "medium effect size"
    ELSE "small effect size"

compare_woningtype(dl) ==
    LET chk == CheckColumns(dl, {"Woningtype_Naam", "Doorlooptijd_Mediaan"}, "doorlooptijden")
        group_een == TypeGroup(dl, Eengezins)
        group_meer == TypeGroup(dl, Meergezins)
    IN  IF chk # NoError THEN Outcome(<<>>, <<>>, chk)
        ELSE IF NotEnoughSamples(Len(group_een), Len(group_meer))
           THEN Outcome(<<>>, <<>>,
                        [type |-> "ValueError", msg |-> "Not enough samples for t-test",
                         detail |-> <<Len(group_een), Len(group_meer)>>])
        ELSE Outcome(<< ResultFile("4_woningtype_ttest.csv",
                           <<[woningtype_1 |-> "Eengezinswoning",
                              woningtype_2 |-> "Meergezinswoning",
                              group_1 |-> group_een,
                              group_2 |-> group_meer,
                              cohens_d |-> cohens_d(group_een, group_meer),
                              effect |-> effect_label(cohens_d(group_een, group_meer))]>>) >>,
                     <<>>, NoError)

\* ---- analysis 5: correlations --------------------------------------------
\* number of (Regio_Naam, Jaar) groups that have a mean in both aggregates:
\* `pd.concat([dl_agg, pj_agg], axis=1, join='inner').dropna()`
GroupPairs(d) == {<<d.rows[i].Regio_Naam, d.rows[i].Jaar>> : i \in 1..Len(d.rows)}

HasMean(d, g, c) ==
    \E i \in 1..Len(d.rows) :
        /\ <<d.rows[i].Regio_Naam, d.rows[i].Jaar>> = g
        /\ d.rows[i][c] # NaN

MergedGroups(dl, pj) ==
    {g \in GroupPairs(dl) \cap GroupPairs(pj) :
        /\ g[1] # NaN
        /\ HasMean(dl, g, "Doorlooptijd_Mediaan")
        /\ HasMean(pj, g, "Bottleneck_2Jaar_Pct")}

\* `n < 3` / `len(merged) >= 3`
MinPairedObservations == 3

EnoughPairs(n) == n >= MinPairedObservations

CorrelationRecord(v1, v2, n) == [variable_1 |-> v1, variable_2 |-> v2, n_samples |-> n]

\* pair 1, the cross-dataset pair: a missing column is caught and logged; a
\* merge of fewer than 3 groups appends nothing and logs nothing
CrossDatasetPair(dl, pj) ==
    LET chk_dl == CheckColumns(dl, {"Regio_Naam", "Jaar", "Doorlooptijd_Mediaan"},
                               "doorlooptijden")
        chk_pj == CheckColumns(pj, {"Regio_Naam", "Jaar", "Bottleneck_2Jaar_Pct"},
                               "woningen_pijplijn")
    IN  IF chk_dl # NoError \/ chk_pj # NoError
           THEN [records |-> <<>>,
                 log |-> <<LogLine("warning", "Skipping cross-dataset correlation", "Bottleneck_2Jaar_Pct")>>]
        ELSE IF EnoughPairs(Cardinality(MergedGroups(dl, pj)))
           THEN [records |-> << CorrelationRecord("Doorlooptijd_Mediaan", "Bottleneck_2Jaar_Pct",
                                                  Cardinality(MergedGroups(dl, pj))) >>,
                 log |-> <<>>]
        ELSE [records |-> <<>>, log |-> <<>>]

\* `pj_pairs`
pj_pairs == << <<"Bottleneck_2Jaar_Pct", "Vergunning_Fase_Pct">>,
               <<"Bottleneck_2Jaar_Pct", "Bouw_Fase_Pct">> >>

\* one pair within the pijplijn table: _pearson_pair drops the rows where
\* either value is missing
PijplijnPair(pj, v1, v2) ==
    IF v1 \notin pj.cols \/ v2 \notin pj.cols
       THEN [records |-> <<>>, log |-> <<LogLine("warning", "Skipping: column not found", v2)>>]
    ELSE LET n == Len(DropNa(pj, {v1, v2}).rows)
         IN  IF EnoughPairs(n)
                THEN [records |-> <<CorrelationRecord(v1, v2, n)>>, log |-> <<>>]
                ELSE [records |-> <<>>,
                      log |-> <<LogLine("warning", "Insufficient data", v2)>>]

analyze_correlations(dl, pj) ==
    LET p1 == CrossDatasetPair(dl, pj)
        p2 == PijplijnPair(pj, pj_pairs[1][1], pj_pairs[1][2])
        p3 == PijplijnPair(pj, pj_pairs[2][1], pj_pairs[2][2])
        records == p1.records \o p2.records \o p3.records
        log == p1.log \o p2.log \o p3.log
    IN  IF records = <<>>
           THEN Outcome(<<>>, log, ValueError("No correlations could be computed"))
           ELSE Outcome(<<ResultFile("5_correlation_matrix.csv", records)>>, log, NoError)

\* ---- analysis 6: seasonal decomposition ----------------------------------
\* `.dropna(subset=[value]).groupby(['Jaar', period])`: the observations of a
\* series are the (Jaar, period) groups of the rows that have a value
SeriesKeys(d, period_col, value_col) ==
    {<<d.rows[i].Jaar, d.rows[i][period_col]>> :
        i \in {k \in 1..Len(d.rows) : d.rows[k][value_col] # NaN}}

\* `.sort_values(['Jaar', period])`
KeyBefore(a, b) == a[1] < b[1] \/ (a[1] = b[1] /\ a[2] < b[2])

RECURSIVE SortKeys(_)
SortKeys(keys) ==
    IF keys = {} THEN <<>>
    ELSE LET first == CHOOSE x \in keys : \A y \in keys : x = y \/ KeyBefore(x, y)
         IN  <<first>> \o SortKeys(keys \ {first})

\* `min_periods = 2 * period + 1`
MinPeriods_twice(period) == 2 * period

MinPeriods(period) == 2 * period + 1

\* a component of the STL fit, which has a number for every observation, or
\* np.nan when the series is too short
Component(n, period) == IF n >= MinPeriods(period) THEN <<"number">> ELSE NaN

\* Observed is the mean of the group's values, which are all present after
\* the dropna, so the ffill changes nothing
Decomposition(keys, period, grain) ==
    LET ts == SortKeys(keys)
        n == Len(ts)
    IN  [records |-> [i \in 1..n |->
                        [Jaar |-> ts[i][1], Period |-> ts[i][2], Observed |-> <<"number">>,
                         Trend |-> Component(n, period),
                         Seasonal |-> Component(n, period),
                         Residual |-> Component(n, period)]],
         log |-> IF n >= MinPeriods(period) THEN <<>>
                 ELSE <<LogLine("warning", "Insufficient data for STL", grain)>>]

\* the doorlooptijd table is written before the pijplijn columns are checked
decompose_seasonal(dl, pj) ==
    LET chk_dl == CheckColumns(dl, {"Jaar", "Kwartaal", "Periode_Naam", "Doorlooptijd_Mediaan"},
                               "doorlooptijden")
        chk_pj == CheckColumns(pj, {"Jaar", "Maand", "Periode_Naam", "Pijplijn_Totaal"},
                               "woningen_pijplijn")
        dl_ts == Decomposition(SeriesKeys(dl, "Kwartaal", "Doorlooptijd_Mediaan"), 4, "quarterly")
        dl_file == ResultFile("6_seasonal_decomposition_doorlooptijd.csv", dl_ts.records)
    IN  IF chk_dl # NoError THEN Outcome(<<>>, <<>>, chk_dl)
        ELSE IF chk_pj # NoError THEN Outcome(<<dl_file>>, dl_ts.log, chk_pj)
        ELSE LET pj_ts == Decomposition(SeriesKeys(pj, "Maand", "Pijplijn_Totaal"), 12,
                                      "monthly")
             IN  Outcome(<< dl_file,
                            ResultFile("6_seasonal_decomposition_pijplijn.csv", pj_ts.records) >>,
                         dl_ts.log \o pj_ts.log, NoError)

\* ---- run_all_analyses ----------------------------------------------------
\* the order of the calls inside the try block
analysis_order_swapped ==
    <<"trend", "bottlenecks", "anova", "ttest", "correlations", "seasonal">>

analysis_order ==
    <<"trend", "anova", "bottlenecks", "ttest", "correlations", "seasonal">>

\* where the run goes when analysis a has returned
AfterAnalysis(a) ==
    LET i == CHOOSE k \in 1..Len(analysis_order) : analysis_order[k] = a
    IN  IF i = Len(analysis_order) THEN "returned" ELSE analysis_order[i + 1]

RECURSIVE WriteAll(_, _)
WriteAll(dir, files) ==
    IF files = <<>> THEN dir
    ELSE WriteAll(WriteFile(dir, files[1].name, files[1].content), Tail(files))

\* `except Exception as e: logger.error(...); raise`
AnalysisFailed(exc) == LogLine("error", "Analysis failed", exc.type)

\* one call of the try block, with what it did
RunAnalysis(a, out) ==
    /\ an_started' = Append(an_started, a)
    /\ results_dir' = WriteAll(results_dir, out.files)
    /\ an_written' = an_written \o [i \in 1..Len(out.files) |-> out.files[i].name]
    /\ IF out.exc = NoError
          THEN /\ an_pc' = AfterAnalysis(a)
               /\ an_log' = an_log \o out.log
               /\ UNCHANGED an_exc
          ELSE /\ an_pc' = "raised"
               /\ an_exc' = out.exc
               /\ an_log' = an_log \o out.log \o <<AnalysisFailed(out.exc)>>
    /\ UNCHANGED <<df_doorloop, df_pijplijn>>
    /\ UNCHANGED othersAn

\* load_data with both files present
AnLoadData ==
    /\ an_pc = "load"
    /\ {LatestFile("doorlooptijden"), LatestFile("woningen_pijplijn")}
          \subseteq DOMAIN processed_dir
    /\ df_doorloop' = <<processed_dir[LatestFile("doorlooptijden")]>>
    /\ df_pijplijn' = <<processed_dir[LatestFile("woningen_pijplijn")]>>
    /\ an_pc' = analysis_order[1]
    /\ UNCHANGED <<results_dir, an_started, an_written, an_exc, an_log>>
    /\ UNCHANGED othersAn

\* load_data raises FileNotFoundError: the doorlooptijden file is looked for first
AnLoadDataMissing ==
    /\ an_pc = "load"
    /\ ~({LatestFile("doorlooptijden"), LatestFile("woningen_pijplijn")}
            \subseteq DOMAIN processed_dir)
    /\ an_exc' = IF LatestFile("doorlooptijden") \notin DOMAIN processed_dir
                    THEN FileNotFoundError("Doorlooptijden file not found")
                    ELSE FileNotFoundError("Pijplijn file not found")
    /\ an_log' = Append(an_log, AnalysisFailed(an_exc'))
    /\ an_pc' = "raised"
    /\ UNCHANGED <<df_doorloop, df_pijplijn, results_dir, an_started, an_written>>
    /\ UNCHANGED othersAn

AnTemporalTrend ==
    /\ an_pc = "trend"
    /\ RunAnalysis("trend", analyze_temporal_trend(df_doorloop[1]))

AnRegionalAnova ==
    /\ an_pc = "anova"
    /\ RunAnalysis("anova", analyze_regional_anova(df_doorloop[1]))

AnBottlenecks ==
    /\ an_pc = "bottlenecks"
    /\ \E order \in RankOrders(df_pijplijn[1]) :
          RunAnalysis("bottlenecks", quantify_bottlenecks(df_pijplijn[1], order))

AnWoningtype ==
    /\ an_pc = "ttest"
    /\ RunAnalysis("ttest", compare_woningtype(df_doorloop[1]))

AnCorrelations ==
    /\ an_pc = "correlations"
    /\ RunAnalysis("correlations", analyze_correlations(df_doorloop[1], df_pijplijn[1]))

AnSeasonal ==
    /\ an_pc = "seasonal"
    /\ RunAnalysis("seasonal", decompose_seasonal(df_doorloop[1], df_pijplijn[1]))

\* ---- the processed files the analyzer may find ----------------------------
Eengezinswoning == Eengezins \o <<"w", "o", "n", "i", "n", "g">>

Meergezinswoning == Meergezins \o <<"w", "o", "n", "i", "n", "g">>

\* the columns of doorlooptijden_latest.csv that the analyzer reads
DoorloopColumns == {"Regio_Naam", "Woningtype_Naam", "Periode_Naam", "Jaar", "Kwartaal",
                    "Doorlooptijd_Mediaan"}

DoorloopRow(jaar, regio, woningtype, mediaan) ==
    [Regio_Naam |-> regio, Woningtype_Naam |-> woningtype, Periode_Naam |-> <<"1e kwartaal">>,
     Jaar |-> jaar, Kwartaal |-> 1, Doorlooptijd_Mediaan |-> mediaan]

DoorloopRowTypes ==
    { DoorloopRow(2023, <<"Amsterdam">>, <<Eengezinswoning>>, <<10>>),
      DoorloopRow(2024, <<"Amsterdam">>, <<Eengezinswoning>>, <<10>>),
      DoorloopRow(2024, <<"Amsterdam">>, <<Eengezinswoning>>, <<12>>),
      DoorloopRow(2023, <<"Utrecht">>,   <<Meergezinswoning>>, <<20>>),
      DoorloopRow(2024, <<"Utrecht">>,   <<Meergezinswoning>>, <<20>>),
      DoorloopRow(2024, <<"Utrecht">>,   <<Totaal>>, <<20>>),
      DoorloopRow(2023, <<"Amsterdam">>, <<Meergezinswoning>>, NaN),
      DoorloopRow(2024, NaN,             <<Meergezinswoning>>, <<15>>) }

DoorloopTable(rows) == [cols |-> DoorloopColumns, rows |-> rows]

\* a table every doorlooptijden analysis accepts
GoodDoorloop ==
    DoorloopTable(<< DoorloopRow(2023, <<"Amsterdam">>, <<Eengezinswoning>>, <<10>>),
                     DoorloopRow(2024, <<"Amsterdam">>, <<Eengezinswoning>>, <<12>>),
                     DoorloopRow(2023, <<"Utrecht">>,   <<Meergezinswoning>>, <<20>>),
                     DoorloopRow(2024, <<"Utrecht">>,   <<Meergezinswoning>>, <<20>>) >>)

\* larger processed tables: two regions of two observations and a third
\* region of one
LoneRegionDoorloop ==
    DoorloopTable(GoodDoorloop.rows \o
                  << DoorloopRow(2024, <<"Rotterdam">>, <<Eengezinswoning>>, <<30>>) >>)

\* a quarterly series of n observations, from 2020 Q1 on
QuarterlyDoorloop(n) ==
    DoorloopTable([i \in 1..n |->
        [DoorloopRow(2020 + ((i - 1) \div 4),
                     IF i % 2 = 0 THEN <<"Amsterdam">> ELSE <<"Utrecht">>,
                     IF i % 2 = 0 THEN <<Eengezinswoning>> ELSE <<Meergezinswoning>>,
                     <<10 + i>>)
            EXCEPT !.Kwartaal = ((i - 1) % 4) + 1]])

ExtraDoorloopTables == {LoneRegionDoorloop, QuarterlyDoorloop(8), QuarterlyDoorloop(9)}

\* the columns of woningen_pijplijn_latest.csv that the analyzer reads
PijplijnColumns == {"Regio_Naam", "Jaar", "Maand", "Periode_Naam", "Pijplijn_Totaal",
                    "Bottleneck_2Jaar_Pct", "Bottleneck_5Jaar_Pct", "Vergunning_Fase_Pct",
                    "Bouw_Fase_Pct", "Crisis_Regio"}

PijplijnRow(regio, jaar, maand, totaal, b2, vergunning, bouw) ==
    [Regio_Naam |-> regio, Jaar |-> jaar, Maand |-> maand, Periode_Naam |-> <<"maand">>,
     Pijplijn_Totaal |-> totaal, Bottleneck_2Jaar_Pct |-> b2, Bottleneck_5Jaar_Pct |-> b2,
     Vergunning_Fase_Pct |-> vergunning, Bouw_Fase_Pct |-> bouw, Crisis_Regio |-> 0]

PijplijnRowTypes ==
    { PijplijnRow(<<"Amsterdam">>, 2023, 1, <<100>>, <<5>>, <<1>>, <<2>>),
      PijplijnRow(<<"Amsterdam">>, 2024, 1, <<110>>, <<6>>, <<2>>, NaN),
      PijplijnRow(<<"Utrecht">>,   2023, 2, <<120>>, <<7>>, NaN,   <<3>>),
      PijplijnRow(<<"Utrecht">>,   2024, 1, <<130>>, <<8>>, <<3>>, <<4>>),
      PijplijnRow(<<"Amsterdam">>, 2023, 2, NaN,     NaN,   <<4>>, <<5>>) }

\* a pijplijn file with the given columns
PijplijnTable(cols, rows) ==
    [cols |-> cols, rows |-> [i \in 1..Len(rows) |-> [c \in cols |-> rows[i][c]]]]

\* no code of the pipeline writes woningen_pijplijn_latest.csv: the file is
\* whatever was put there, so a column may be absent
PijplijnColumnSets ==
    { PijplijnColumns, PijplijnColumns \ {"Jaar"}, PijplijnColumns \ {"Maand"},
      PijplijnColumns \ {"Vergunning_Fase_Pct"} }

\* a monthly series of n observations, from January 2020 on
MonthlyPijplijn(n) ==
    PijplijnTable(PijplijnColumns,
        [i \in 1..n |->
            PijplijnRow(IF i % 2 = 0 THEN <<"Amsterdam">> ELSE <<"Utrecht">>,
                        2020 + ((i - 1) \div 12), ((i - 1) % 12) + 1,
                        <<100 + i>>, <<i>>, <<i % 5>>, <<i % 3>>)])

\* twelve regions of one row each: two of them have the same percentage and
\* one has none
RegionNames == <<"Almere", "Breda", "Delft", "Ede", "Gouda", "Haarlem", "Leiden",
                 "Meppel", "Nijmegen", "Oss", "Tilburg", "Zwolle">>

ManyRegionsPijplijn ==
    PijplijnTable(PijplijnColumns,
        [i \in 1..Len(RegionNames) |->
            PijplijnRow(<<RegionNames[i]>>, 2023 + (i % 2), 1, <<100 + i>>,
                        CASE i = 4 -> NaN [] i = 7 -> <<6>> [] OTHER -> <<i>>,
                        <<i % 5>>, <<i % 3>>)])

ExtraPijplijnTables == {MonthlyPijplijn(24), MonthlyPijplijn(25), ManyRegionsPijplijn}

GoodPijplijn ==
    PijplijnTable(PijplijnColumns,
        << PijplijnRow(<<"Amsterdam">>, 2023, 1, <<100>>, <<5>>, <<1>>, <<2>>),
           PijplijnRow(<<"Amsterdam">>, 2024, 1, <<110>>, <<6>>, <<2>>, <<3>>),
           PijplijnRow(<<"Utrecht">>,   2023, 2, <<120>>, <<7>>, <<2>>, <<3>>),
           PijplijnRow(<<"Utrecht">>,   2024, 1, <<130>>, <<8>>, <<3>>, <<4>>) >>)

ProcessedDir(dl, pj) ==
    WriteFile(WriteFile(<<>>, LatestFile("doorlooptijden"), dl),
              LatestFile("woningen_pijplijn"), pj)

\* the files an earlier run of the analyzer left in RESULTS_DIR
ResultFileNames ==
    {"1_temporal_regression.csv", "2_regional_anova.csv", "2_regional_anova_posthoc.csv",
     "3_bottleneck_summary.csv", "3_bottleneck_top10_crisis.csv", "4_woningtype_ttest.csv",
     "5_correlation_matrix.csv", "6_seasonal_decomposition_doorlooptijd.csv",
     "6_seasonal_decomposition_pijplijn.csv"}

StaleResults == [f \in ResultFileNames |-> <<>>]

InitAnalyze ==
    /\ \/ \E n \in 0..MaxDoorloopRows : \E rows \in [1..n -> DoorloopRowTypes] :
             processed_dir = ProcessedDir(DoorloopTable(rows), GoodPijplijn)
       \/ \E dl \in ExtraDoorloopTables :
             processed_dir = ProcessedDir(dl, GoodPijplijn)
       \/ \E pj \in ExtraPijplijnTables :
             processed_dir = ProcessedDir(GoodDoorloop, pj)
       \/ \E n \in 1..MaxPijplijnRows : \E rows \in [1..n -> PijplijnRowTypes] :
             \E cols \in PijplijnColumnSets :
                processed_dir = ProcessedDir(GoodDoorloop, PijplijnTable(cols, rows))
       \/ \E present \in (SUBSET {"doorlooptijden", "woningen_pijplijn"})
                            \ {{"doorlooptijden", "woningen_pijplijn"}} :
             processed_dir = [f \in {LatestFile(d) : d \in present} |->
                                 IF f.dataset = "doorlooptijden" THEN GoodDoorloop
                                 ELSE GoodPijplijn]
    /\ results_dir \in {<<>>, StaleResults}
    /\ tm_pc = "idle"
    /\ tm_timestamp = <<0, 0>>
    /\ tm_exc = "none"
    /\ tm_log = <<>>
    /\ an_pc = "load"
    /\ df_doorloop = <<>>
    /\ df_pijplijn = <<>>
    /\ an_started = <<>>
    /\ an_written = <<>>
    /\ an_exc = NoError
    /\ an_log = <<>>
    /\ ReqIdle /\ PgIdle /\ GdIdle /\ ClIdle /\ ExIdle /\ TrIdle /\ SqIdle /\ EmIdle

NextAnalyze ==
    \/ AnLoadData
    \/ AnLoadDataMissing
    \/ AnTemporalTrend
    \/ AnRegionalAnova
    \/ AnBottlenecks
    \/ AnWoningtype
    \/ AnCorrelations
    \/ AnSeasonal

SpecAnalyze == InitAnalyze /\ [][NextAnalyze]_vars

-----------------------------------------------------------------------------
(***************************************************************************)
(* transform_housing_data.main and save_transformed_data, followed by the  *)
(* analyzer's load_data (the next stage of the pipeline).  main calls      *)
(* transform_doorlooptijden, whose steps are the actions above.            *)
(***************************************************************************)
\* PROCESSED_DATA_DIR / f"{dataset_name}_transformed_{self.timestamp}.{fmt}"
SnapshotFile(dataset_name, ts, suffix) ==
    [dataset |-> dataset_name, kind |-> "transformed", ts |-> ts, suffix |-> suffix]

\* the file one entry of `formats` makes; an unknown format makes none
FormatFiles(dataset_name, ts, fmt) ==
    IF fmt = "csv" THEN <<SnapshotFile(dataset_name, ts, ".csv")>>
    ELSE IF fmt = "parquet" THEN <<SnapshotFile(dataset_name, ts, ".parquet")>>
    ELSE <<>>

\* the files save_transformed_data writes, in order: one per format, then
\* the "latest" csv
SavedAs(dataset_name, ts, formats) ==
    Flatten([i \in 1..Len(formats) |-> FormatFiles(dataset_name, ts, formats[i])])
       \o <<LatestFile(dataset_name)>>

\* every file holds the table it was given
RECURSIVE WriteTable(_, _, _)
WriteTable(dir, names, table) ==
    IF names = <<>> THEN dir
    ELSE WriteTable(WriteFile(dir, names[1], table), Tail(names), table)

save_transformed_data(dir, table, dataset_name, ts, formats) ==
    WriteTable(dir, SavedAs(dataset_name, ts, formats), table)

\* the datasets main transforms and saves
MainDatasets == <<"doorlooptijden">>

\* `preview_cols` and the columns of the summary statistics
preview_cols == {"Regio_Naam", "Woningtype_Naam", "Jaar", "Kwartaal", "Doorlooptijd_Mediaan",
                 "Doorlooptijd_Gemiddelde", "Nieuwbouw_Aantal"}

\* transform_doorlooptijden has returned: save_transformed_data
TmSave ==
    /\ tm_pc = "transform"
    /\ tr_pc = "returned"
    /\ processed_dir' = save_transformed_data(processed_dir, df, MainDatasets[1],
                                              tm_timestamp, <<"csv", "parquet">>)
    /\ tm_pc' = "report"
    /\ UNCHANGED <<tm_timestamp, tm_exc, tm_log>>
    /\ UNCHANGED <<trVars, othersTm>>

\* the preview and the summary statistics, then the normal return; a column
\* they read that is not in the table is a KeyError, logged and re-raised
TmReport ==
    /\ tm_pc = "report"
    /\ IF preview_cols \subseteq df.cols
          THEN /\ tm_pc' = "returned"
               /\ UNCHANGED <<tm_exc, tm_log>>
          ELSE /\ tm_pc' = "raised"
               /\ tm_exc' = "KeyError"
               /\ tm_log' = Append(tm_log, LogLine("error", "Transformation failed", "KeyError"))
    /\ UNCHANGED <<processed_dir, tm_timestamp>>
    /\ UNCHANGED <<trVars, othersTm>>

\* `except FileNotFoundError`: logged, a hint is printed, and main returns
TmFileNotFound ==
    /\ tm_pc = "transform"
    /\ tr_pc = "raised"
    /\ tr_exc = "FileNotFoundError"
    /\ tm_log' = Append(tm_log, LogLine("error", "File not found", tr_exc))
    /\ tm_pc' = "returned"
    /\ UNCHANGED <<processed_dir, tm_timestamp, tm_exc>>
    /\ UNCHANGED <<trVars, othersTm>>

\* `except Exception`: logged and re-raised
TmReraise ==
    /\ tm_pc = "transform"
    /\ tr_pc = "raised"
    /\ tr_exc # "FileNotFoundError"
    /\ tm_log' = Append(tm_log, LogLine("error", "Transformation failed", tr_exc))
    /\ tm_pc' = "raised"
    /\ tm_exc' = tr_exc
    /\ UNCHANGED <<processed_dir, tm_timestamp>>
    /\ UNCHANGED <<trVars, othersTm>>

\* the next stage: analyze_statistics.py is run once main has returned
PipelineRunsAnalyzer ==
    /\ tm_pc = "returned"
    /\ an_pc = "idle"
    /\ an_pc' = "load"
    /\ UNCHANGED <<df_doorloop, df_pijplijn, results_dir, an_started, an_written,
                   an_exc, an_log>>
    /\ UNCHANGED othersAn

\* a table an earlier run of the transformer has left
EarlierProcessed ==
    DeriveMetrics(ParseAndRename(JoinAll(
        [cols |-> RawColumns,
         rows |-> <<RawRow(0, <<"c2", "c2", "c2", Period2014KW04>>,
                           << <<1>>, <<2>>, <<3>>, <<4>>, <<5>> >>)>>],
        [n \in DimNameSet |-> DimensionFile(n)])))

\* the timestamp of this run and the one of an earlier run
MainTimestamp == <<20260221, 90000>>

EarlierTimestamp == <<20260220, 205059>>

\* the files of an earlier run: the transformer's for doorlooptijden; for
\* woningen_pijplijn, which no code of the pipeline writes, a "latest" file
EarlierFiles(dataset_name) ==
    IF dataset_name = MainDatasets[1]
       THEN SavedAs(dataset_name, EarlierTimestamp, <<"csv", "parquet">>)
       ELSE <<LatestFile(dataset_name)>>

InitMain ==
    /\ \/ fact_file = <<>>
       \/ \E n \in 0..MaxMainRows :
             \E choice \in [1..n -> CodeTuples \X MeasureTuples] :
                fact_file = << [cols |-> RawColumns,
                                rows |-> [i \in 1..n |->
                                            RawRow(i - 1, choice[i][1], choice[i][2])]] >>
    /\ \E present \in SUBSET DimNameSet :
          dim_files = [n \in DimNameSet |->
                          IF n \in present THEN <<DimensionFile(n)>> ELSE <<>>]
    /\ tr_pc = "start"
    /\ tr_dims = <<>>
    /\ df = [cols |-> {}, rows |-> <<>>]
    /\ tr_exc = "none"
    /\ tr_warnings = {}
    /\ \E earlier \in SUBSET {"doorlooptijden", "woningen_pijplijn"} :
          processed_dir =
             [f \in UNION {{EarlierFiles(d)[k] : k \in 1..Len(EarlierFiles(d))} : d \in earlier}
                 |-> IF f.dataset = "doorlooptijden" THEN EarlierProcessed ELSE GoodPijplijn]
    /\ tm_pc = "transform"
    /\ tm_timestamp = MainTimestamp
    /\ tm_exc = "none"
    /\ tm_log = <<>>
    /\ ReqIdle /\ PgIdle /\ GdIdle /\ ClIdle /\ ExIdle /\ AnIdle /\ SqIdle /\ EmIdle

NextMain ==
    \/ TrFactFileMissing
    \/ TrLoadFact
    \/ TrLoadDimensions
    \/ TrJoinDimensions
    \/ TrParseAndRename
    \/ TrValidate
    \/ TrDerive
    \/ TrReturn
    \/ TrSummaryKeyError
    \/ TmSave
    \/ TmReport
    \/ TmFileNotFound
    \/ TmReraise
    \/ PipelineRunsAnalyzer
    \/ AnLoadData
    \/ AnLoadDataMissing

SpecMain == InitMain /\ [][NextMain]_vars

-----------------------------------------------------------------------------
(***************************************************************************)
(* Properties of the transformation run and of the hand-over to the        *)
(* analyzer                                                                *)
(***************************************************************************)
\* the datasets the Analyzer and the SQL Loader read
ConsumedDatasets == {"doorlooptijden", "woningen_pijplijn"}

\* main has run to its end and the transformation inside it had returned
TransformationSucceeded == tm_pc = "returned" /\ tr_pc = "returned"

\* C12: after a successful transformation run, each of the two consumed
\* datasets has a timestamped snapshot of this run and a "latest" file, both
\* holding the table of this run (for doorlooptijden the table that
\* transform_doorlooptijden returned), and a load_data that follows does not
\* raise.
C12_LatestFiles ==
    /\ TransformationSucceeded =>
          \A d \in ConsumedDatasets :
             /\ LatestFile(d) \in DOMAIN processed_dir
             /\ SnapshotFile(d, tm_timestamp, ".csv") \in DOMAIN processed_dir
             /\ processed_dir[LatestFile(d)] = processed_dir[SnapshotFile(d, tm_timestamp, ".csv")]
             /\ d = "doorlooptijden" => processed_dir[LatestFile(d)] = df
    /\ (TransformationSucceeded /\ an_pc \notin {"idle", "load"}) =>
          /\ an_pc # "raised"
          /\ df_doorloop = <<df>>

\* C13: when a fatal error was raised inside main (here by
\* transform_doorlooptijden, a missing raw fact file included) or inside
\* run_all_analyses (here by load_data), the function has logged it and has
\* raised it to its caller: it has not returned normally.
C13_FatalErrorsPropagate ==
    /\ (tr_pc = "raised" /\ tm_pc # "transform") =>
          /\ tm_pc = "raised"
          /\ tm_exc = tr_exc
          /\ \E i \in 1..Len(tm_log) : tm_log[i].level = "error" /\ tm_log[i].about = tr_exc
    /\ an_pc = "raised" =>
          /\ an_exc # NoError
          /\ \E i \in 1..Len(an_log) : an_log[i].level = "error" /\ an_log[i].about = an_exc.type

-----------------------------------------------------------------------------
(***************************************************************************)
(* load_to_sql.py: SQLDatabaseLoader                                       *)
(*                                                                         *)
(* A raw dimension file is [dim, table, ts]: the file                      *)
(* dim_<dim>_<table>_<timestamp>.csv of the ts-th extraction; sq_raw gives *)
(* the rows of each file present.  db gives the rows of each table of the  *)
(* database.  The DDL under sql/schema is not part of the python sources:  *)
(* the two steps that execute it are written from the description of the   *)
(* loader.  schema_files gives what each DDL file present does: the tables *)
(* are created when absent, or dropped and created anew; the indexes leave *)
(* the rows alone.                                                         *)
(***************************************************************************)
MaxSnapshots == 2

MaxRuns == 2

RawDimFile(dim, table, ts) == [dim |-> dim, table |-> table, ts |-> ts]

\* RAW_DIR.glob('dim_<dim>_<table>_*.csv')
Glob(raw, dim, table) == {f \in DOMAIN raw : f.dim = dim /\ f.table = table}

\* order of two paths of one dimension: '86260NED' is above '82211NED' at
\* its second character, and two timestamps have the same width
PathGreater_ascending(a, b) ==
    \/ a.table = "82211NED" /\ b.table = "86260NED"
    \/ a.table = b.table /\ a.ts < b.ts

PathGreater(a, b) ==
    \/ a.table = "86260NED" /\ b.table = "82211NED"
    \/ a.table = b.table /\ a.ts > b.ts

\* sorted(files, reverse=True)
RECURSIVE SortedFiles(_)
SortedFiles(S) ==
    IF S = {} THEN <<>>
    ELSE LET m == CHOOSE x \in S : \A y \in S \ {x} : PathGreater(x, y)
         IN  <<m>> \o SortedFiles(S \ {m})

\* files[:n]
Head_n(files, n) == SubSeq(files, 1, Min(n, Len(files)))

\* pd.concat(dfs, ignore_index=True)
ConcatFiles(raw, files) == Flatten([i \in 1..Len(files) |-> raw[files[i]]])

\* df.rename(columns={'Key': 'code', 'Title': 'naam'})[['code', 'naam']]
CodeNaam(rows) == [i \in 1..Len(rows) |-> [code |-> rows[i].Key, naam |-> rows[i].Title]]

\* drop_duplicates(subset=['code']): the first row of each code is kept
RECURSIVE drop_duplicates(_)
drop_duplicates(rows) ==
    IF rows = <<>> THEN <<>>
    ELSE LET front == drop_duplicates(Front(rows))
             last  == Last(rows)
         IN  IF \E i \in 1..Len(front) : front[i].code = last.code
                THEN front ELSE Append(front, last)

\* a new column with one value for every row
WithColumn(rows, c, v) == [i \in 1..Len(rows) |-> AddCol(rows[i], c, v)]

\* the position of `mark` followed by a digit in a code, 0 when there is none
MarkAt(code, mark) ==
    LET hits == {i \in 1..(Len(code) - 2) :
                    /\ code[i] = mark[1] /\ code[i + 1] = mark[2]
                    /\ code[i + 2] \in {"0", "1", "2", "3", "4", "5", "6", "7", "8", "9"}}
    IN  IF hits = {} THEN 0 ELSE CHOOSE i \in hits : \A j \in hits : i <= j

\* the run of digits that starts at position i
RECURSIVE DigitRun(_, _)
DigitRun(code, i) ==
    IF i > Len(code) \/ code[i] \notin {"0", "1", "2", "3", "4", "5", "6", "7", "8", "9"}
       THEN <<>>
       ELSE <<code[i]>> \o DigitRun(code, i + 1)

\* df['code'].str.extract(r'KW(\d+)')[0].astype(float): NaN without a match
ExtractNumber(code, mark) ==
    IF MarkAt(code, mark) = 0 THEN NaN
    ELSE <<ToInt(DigitRun(code, MarkAt(code, mark) + 2))>>

\* the jaar, kwartaal and maand columns of dim_perioden
PeriodColumns(rows) ==
    [i \in 1..Len(rows) |->
        [code |-> rows[i].code, naam |-> rows[i].naam,
         jaar     |-> ToInt(SubSeq(rows[i].code, 1, 4)),
         kwartaal |-> ExtractNumber(rows[i].code, <<"K", "W">>),
         maand    |-> ExtractNumber(rows[i].code, <<"M", "M">>)]]

\* df.to_sql(name, self.conn, if_exists=..., index=False)
to_sql_append(database, name, rows) ==
    WriteFile(database, name,
              IF name \in DOMAIN database THEN database[name] \o rows ELSE rows)

to_sql(database, name, rows) == WriteFile(database, name, rows)

\* what one load step does: the database it leaves, the lines it logs and
\* the exception it ends with
Loaded(database, log, exc) == [db |-> database, log |-> log, exc |-> exc]

Skip(database, what) ==
    Loaded(database, <<LogLine("warning", "[SKIP] No dimension file found", what)>>, NoError)

load_dimension_regiokenmerken(database, raw) ==
    LET files == SortedFiles(Glob(raw, "regiokenmerken", "86260NED"))
    IN  IF files = <<>> THEN Skip(database, "regiokenmerken")
        ELSE Loaded(to_sql(database, "dim_regiokenmerken",
                           WithColumn(CodeNaam(raw[files[1]]), "type", "regio")),
                    <<>>, NoError)

load_dimension_regios(database, raw) ==
    LET files == SortedFiles(Glob(raw, "regios", "82211NED"))
    IN  IF files = <<>> THEN Skip(database, "regios")
        ELSE Loaded(to_sql(database, "dim_regios",
                           WithColumn(CodeNaam(raw[files[1]]), "provincie", NaN)),
                    <<>>, NoError)

load_dimension_gebruiksfunctie(database, raw) ==
    LET files == SortedFiles(Glob(raw, "gebruiksfunctie", "86260NED")
                                \cup Glob(raw, "gebruiksfunctie", "82211NED"))
    IN  IF files = <<>> THEN Skip(database, "gebruiksfunctie")
        ELSE Loaded(to_sql(database, "dim_gebruiksfunctie",
                           drop_duplicates(CodeNaam(raw[files[1]]))),
                    <<>>, NoError)

load_dimension_woningtype(database, raw) ==
    LET files == SortedFiles(Glob(raw, "woningtype", "86260NED"))
    IN  IF files = <<>> THEN Skip(database, "woningtype")
        ELSE Loaded(to_sql(database, "dim_woningtype", CodeNaam(raw[files[1]])),
                    <<>>, NoError)

load_dimension_perioden(database, raw) ==
    LET files == SortedFiles(Glob(raw, "perioden", "86260NED")
                                \cup Glob(raw, "perioden", "82211NED"))
    IN  IF files = <<>> THEN Skip(database, "perioden")
        ELSE Loaded(to_sql(database, "dim_perioden",
                           PeriodColumns(drop_duplicates(
                               CodeNaam(ConcatFiles(raw, Head_n(files, 2)))))),
                    <<>>, NoError)

\* the rename of load_fact_doorlooptijden
doorlooptijden_rename ==
    [ID |-> "id", Regiokenmerken |-> "regiokenmerk_code",
     Gebruiksfunctie |-> "gebruiksfunctie_code", Woningtype |-> "woningtype_code",
     Perioden |-> "periode_code", Jaar |-> "jaar", Kwartaal |-> "kwartaal",
     Doorlooptijd_Mediaan |-> "doorlooptijd_mediaan",
     Doorlooptijd_Gemiddelde |-> "doorlooptijd_gemiddelde",
     Doorlooptijd_P10 |-> "doorlooptijd_p10", Doorlooptijd_P25 |-> "doorlooptijd_p25",
     Doorlooptijd_P75 |-> "doorlooptijd_p75", Doorlooptijd_P90 |-> "doorlooptijd_p90",
     Doorlooptijd_IQR |-> "doorlooptijd_iqr",
     Doorlooptijd_P10_P90_Range |-> "doorlooptijd_p10_p90_range",
     Doorlooptijd_CV |-> "doorlooptijd_cv", Nieuwbouw_Aantal |-> "nieuwbouw_aantal",
     Hoge_Variabiliteit |-> "hoge_variabiliteit"]

doorlooptijden_db_columns ==
    {"id", "regiokenmerk_code", "gebruiksfunctie_code", "woningtype_code", "periode_code",
     "jaar", "kwartaal", "doorlooptijd_mediaan", "doorlooptijd_gemiddelde",
     "doorlooptijd_p10", "doorlooptijd_p25", "doorlooptijd_p75", "doorlooptijd_p90",
     "doorlooptijd_iqr", "doorlooptijd_p10_p90_range", "doorlooptijd_cv",
     "nieuwbouw_aantal", "hoge_variabiliteit"}

\* the rename of load_fact_woningen_pijplijn
pijplijn_rename ==
    [ID |-> "id", RegioS |-> "regio_code", Gebruiksfunctie |-> "gebruiksfunctie_code",
     Perioden |-> "periode_code", Jaar |-> "jaar", Maand |-> "maand",
     Pijplijn_Totaal |-> "pijplijn_totaal", Pijplijn_BouwGestart |-> "pijplijn_bouw_gestart",
     Pijplijn_Vergunning |-> "pijplijn_vergunning",
     Pijplijn_Vast_2Jaar |-> "pijplijn_vast_2jaar",
     Pijplijn_BouwGestart_2Jaar |-> "pijplijn_bouw_gestart_2jaar",
     Pijplijn_Vergunning_2Jaar |-> "pijplijn_vergunning_2jaar",
     Pijplijn_Vast_5Jaar |-> "pijplijn_vast_5jaar",
     BouwGestartPijplijn5Jaar_8 |-> "pijplijn_bouw_gestart_5jaar",
     Vergunningspijplijn5Jaar_9 |-> "pijplijn_vergunning_5jaar",
     Bottleneck_2Jaar_Pct |-> "bottleneck_2jaar_pct",
     Bottleneck_5Jaar_Pct |-> "bottleneck_5jaar_pct",
     Vergunning_Bottleneck_Pct |-> "vergunning_bottleneck_pct",
     Bouw_Bottleneck_Pct |-> "bouw_bottleneck_pct",
     Vergunning_Fase_Pct |-> "vergunning_fase_pct", Bouw_Fase_Pct |-> "bouw_fase_pct",
     Crisis_Regio |-> "crisis_regio"]

pijplijn_db_columns ==
    {"id", "regio_code", "gebruiksfunctie_code", "periode_code", "jaar", "maand",
     "pijplijn_totaal", "pijplijn_bouw_gestart", "pijplijn_vergunning",
     "pijplijn_vast_2jaar", "pijplijn_bouw_gestart_2jaar", "pijplijn_vergunning_2jaar",
     "pijplijn_vast_5jaar", "pijplijn_bouw_gestart_5jaar", "pijplijn_vergunning_5jaar",
     "bottleneck_2jaar_pct", "bottleneck_5jaar_pct", "vergunning_bottleneck_pct",
     "bouw_bottleneck_pct", "vergunning_fase_pct", "bouw_fase_pct", "crisis_regio"}

\* df.rename(columns=mapping)[[col for col in db_columns if col in df.columns]]
MappedRows(table, mapping, db_columns) ==
    [i \in 1..Len(table.rows) |->
        LET renamed == RenameRow(table.rows[i], mapping)
        IN  [c \in (DOMAIN renamed) \cap db_columns |-> renamed[c]]]

load_fact(database, dir, dataset, table_name, mapping, db_columns) ==
    IF LatestFile(dataset) \notin DOMAIN dir
       THEN Loaded(database, <<>>, FileNotFoundError("Processed file not found"))
       ELSE Loaded(to_sql(database, table_name,
                          MappedRows(dir[LatestFile(dataset)], mapping, db_columns)),
                   <<>>, NoError)

load_fact_doorlooptijden(database, dir) ==
    load_fact(database, dir, "doorlooptijden", "fact_doorlooptijden",
              doorlooptijden_rename, doorlooptijden_db_columns)

load_fact_woningen_pijplijn(database, dir) ==
    load_fact(database, dir, "woningen_pijplijn", "fact_woningen_pijplijn",
              pijplijn_rename, pijplijn_db_columns)

\* the tables of the star schema
SchemaTables ==
    {"dim_regiokenmerken", "dim_regios", "dim_gebruiksfunctie", "dim_woningtype",
     "dim_perioden", "fact_doorlooptijden", "fact_woningen_pijplijn"}

\* the steps of run, in order
load_order_facts_first ==
    <<"connect", "create_schema", "fact_doorlooptijden", "fact_woningen_pijplijn",
      "regiokenmerken", "regios", "gebruiksfunctie", "woningtype", "perioden",
      "create_indexes">>

load_order ==
    <<"connect", "create_schema", "regiokenmerken", "regios", "gebruiksfunctie",
      "woningtype", "perioden", "fact_doorlooptijden", "fact_woningen_pijplijn",
      "create_indexes">>

AfterStep(s) ==
    LET i == CHOOSE k \in 1..Len(load_order) : load_order[k] = s
    IN  IF i = Len(load_order) THEN "returned" ELSE load_order[i + 1]

\* logger.error(f"Database loading failed: {str(e)}", exc_info=True)
LoadingFailed(exc) == LogLine("error", "Database loading failed", exc.type)

\* one step of run: the next step follows when it returns; an exception is
\* logged and re-raised, and `finally` closes the connection either way
RunStep(s, out) ==
    /\ conn_open
    /\ db' = out.db
    /\ IF out.exc = NoError
          THEN /\ sq_pc' = AfterStep(s)
               /\ sq_log' = sq_log \o out.log
               /\ sq_exc' = sq_exc
               /\ conn_open' = (AfterStep(s) # "returned")
          ELSE /\ sq_pc' = "raised"
               /\ sq_log' = Append(sq_log \o out.log, LoadingFailed(out.exc))
               /\ sq_exc' = out.exc
               /\ conn_open' = FALSE
    /\ UNCHANGED <<sq_raw, schema_files, sq_runs, db_first>>
    /\ UNCHANGED othersSq

\* connect
SqConnect ==
    /\ sq_pc = "connect"
    /\ ~conn_open
    /\ conn_open' = TRUE
    /\ sq_pc' = AfterStep("connect")
    /\ UNCHANGED <<sq_raw, schema_files, db, sq_exc, sq_log, sq_runs, db_first>>
    /\ UNCHANGED othersSq

\* executescript of a DDL that creates the tables that are not there
CreateIfNotExists(database) ==
    [t \in (DOMAIN database) \cup SchemaTables |->
        IF t \in DOMAIN database THEN database[t] ELSE <<>>]

\* executescript of a DDL that drops every table and creates it anew
DropAndCreate(database) ==
    [t \in (DOMAIN database) \cup SchemaTables |->
        IF t \in SchemaTables THEN <<>> ELSE database[t]]

\* create_schema
SqCreateSchema ==
    /\ sq_pc = "create_schema"
    /\ RunStep("create_schema",
               IF "01_create_tables.sql" \notin DOMAIN schema_files
                  THEN Loaded(db, <<>>, FileNotFoundError("Schema file not found"))
               ELSE IF schema_files["01_create_tables.sql"] = "create if not exists"
                  THEN Loaded(CreateIfNotExists(db), <<>>, NoError)
                  ELSE Loaded(DropAndCreate(db), <<>>, NoError))

SqLoadRegiokenmerken ==
    /\ sq_pc = "regiokenmerken"
    /\ RunStep("regiokenmerken", load_dimension_regiokenmerken(db, sq_raw))

SqLoadRegios ==
    /\ sq_pc = "regios"
    /\ RunStep("regios", load_dimension_regios(db, sq_raw))

SqLoadGebruiksfunctie ==
    /\ sq_pc = "gebruiksfunctie"
    /\ RunStep("gebruiksfunctie", load_dimension_gebruiksfunctie(db, sq_raw))

SqLoadWoningtype ==
    /\ sq_pc = "woningtype"
    /\ RunStep("woningtype", load_dimension_woningtype(db, sq_raw))

SqLoadPerioden ==
    /\ sq_pc = "perioden"
    /\ RunStep("perioden", load_dimension_perioden(db, sq_raw))

SqLoadFactDoorlooptijden ==
    /\ sq_pc = "fact_doorlooptijden"
    /\ RunStep("fact_doorlooptijden", load_fact_doorlooptijden(db, processed_dir))

SqLoadFactPijplijn ==
    /\ sq_pc = "fact_woningen_pijplijn"
    /\ RunStep("fact_woningen_pijplijn", load_fact_woningen_pijplijn(db, processed_dir))

\* create_indexes: the indexes do not change the rows of a table
SqCreateIndexes ==
    /\ sq_pc = "create_indexes"
    /\ RunStep("create_indexes",
               IF "02_create_indexes.sql" \in DOMAIN schema_files
                  THEN Loaded(db, <<>>, NoError)
                  ELSE Loaded(db, <<>>, FileNotFoundError("Index file not found")))

\* python/load_to_sql.py is run once more on the same inputs; db_first keeps
\* the database the first run has left
SqRunAgain ==
    /\ sq_pc \in {"returned", "raised"}
    /\ sq_runs < MaxRuns
    /\ sq_runs' = sq_runs + 1
    /\ db_first' = IF sq_runs = 1 THEN <<db>> ELSE db_first
    /\ sq_pc' = "connect"
    /\ sq_exc' = NoError
    /\ sq_log' = <<>>
    /\ UNCHANGED <<sq_raw, schema_files, db, conn_open>>
    /\ UNCHANGED othersSq

\* ---- inputs ------------------------------------------------------------
Period2023MM01 == <<"2", "0", "2", "3", "M", "M", "0", "1">>

Period2023JJ00 == <<"2", "0", "2", "3", "J", "J", "0", "0">>

\* the rows a dimension file of the ts-th extraction holds: one more key
\* than the extraction before it
DimKeys == <<"c1", "c2", "c3", "c4">>

DimTitles == <<"t1", "t2", "t3", "t4">>

PeriodKeys(table) ==
    IF table = "86260NED"
       THEN <<Period2023KW01, Period2014KW04, Period2023JJ00, Period2023MM01>>
       ELSE <<Period2023MM01, Period2023JJ00, Period2014KW04, Period2023KW01>>

SnapshotRows(f) ==
    [i \in 1..Min(f.ts, Len(DimKeys)) |->
        [Key   |-> IF f.dim = "perioden" THEN PeriodKeys(f.table)[i] ELSE DimKeys[i],
         Title |-> DimTitles[i]]]

\* the dimension files one extraction of a dataset writes; a dimension the
\* extractor could not fetch has no file
ExtractionDimFiles(dataset, ts, absent) ==
    {RawDimFile(LowerName(DatasetDimensions(dataset)[i]).txt, TableId(dataset), ts) :
        i \in {k \in 1..Len(DatasetDimensions(dataset)) :
                   DatasetDimensions(dataset)[k] \notin absent}}

SchemaFileNames == {"01_create_tables.sql", "02_create_indexes.sql"}

\* tables an earlier load of other files has left in the database
StaleDb ==
    [t \in SchemaTables |->
        IF t = "fact_doorlooptijden" THEN <<[id |-> 99, jaar |-> 2010]>>
        ELSE IF t = "fact_woningen_pijplijn" THEN <<[id |-> 98, jaar |-> 2011]>>
        ELSE <<[code |-> "c9", naam |-> "t9"]>>]

InitLoad ==
    /\ \E snapshots \in SUBSET (1..MaxSnapshots), pijplijn \in SUBSET {1},
          absent \in SUBSET {"Regiokenmerken", "Gebruiksfunctie", "Woningtype", "RegioS",
                             "Perioden"} :
          sq_raw = [f \in UNION ({ExtractionDimFiles("doorlooptijden", ts, absent) :
                                     ts \in snapshots}
                                 \cup {ExtractionDimFiles("woningen_pijplijn", ts, absent) :
                                          ts \in pijplijn})
                       |-> SnapshotRows(f)]
    /\ \E present \in SUBSET {"doorlooptijden", "woningen_pijplijn"} :
          processed_dir = [f \in {LatestFile(d) : d \in present} |->
                              IF f.dataset = "doorlooptijden" THEN EarlierProcessed
                              ELSE GoodPijplijn]
    /\ \E present \in (SUBSET SchemaFileNames) \ {{}},
          ddl \in {"create if not exists", "drop and create"} :
          schema_files = [f \in present |->
                             IF f = "01_create_tables.sql" THEN ddl ELSE "create index"]
    /\ db \in {<<>>, StaleDb}
    /\ sq_pc = "connect"
    /\ conn_open = FALSE
    /\ sq_exc = NoError
    /\ sq_log = <<>>
    /\ sq_runs = 1
    /\ db_first = <<>>
    /\ tm_pc = "idle"
    /\ tm_timestamp = <<0, 0>>
    /\ tm_exc = "none"
    /\ tm_log = <<>>
    /\ ReqIdle /\ PgIdle /\ GdIdle /\ ClIdle /\ ExIdle /\ TrIdle /\ AnIdle /\ EmIdle

NextLoad ==
    \/ SqConnect
    \/ SqCreateSchema
    \/ SqLoadRegiokenmerken
    \/ SqLoadRegios
    \/ SqLoadGebruiksfunctie
    \/ SqLoadWoningtype
    \/ SqLoadPerioden
    \/ SqLoadFactDoorlooptijden
    \/ SqLoadFactPijplijn
    \/ SqCreateIndexes
    \/ SqRunAgain

SpecLoad == InitLoad /\ [][NextLoad]_vars

-----------------------------------------------------------------------------
(* Properties of the SQL loader *)

\* the place of a step in run
StepIndex(s) == CHOOSE k \in 1..Len(load_order) : load_order[k] = s

\* the step whose exception ended the run
RaisedAt ==
    CASE sq_exc.msg = "Schema file not found" -> "create_schema"
      [] sq_exc.msg = "Index file not found"  -> "create_indexes"
      [] OTHER -> IF LatestFile("doorlooptijden") \notin DOMAIN processed_dir
                     THEN "fact_doorlooptijden" ELSE "fact_woningen_pijplijn"

\* this run has carried out step s and gone on
Completed(s) ==
    \/ sq_pc = "returned"
    \/ sq_pc \in {load_order[k] : k \in 1..Len(load_order)} /\ StepIndex(sq_pc) > StepIndex(s)
    \/ sq_pc = "raised" /\ StepIndex(RaisedAt) > StepIndex(s)

\* the raw dimension files a load step looks for
DimInputs(s) ==
    IF s \in {"gebruiksfunctie", "perioden"}
       THEN {f \in DOMAIN sq_raw : f.dim = s}
    ELSE IF s = "regios"
       THEN {f \in DOMAIN sq_raw : f.dim = s /\ f.table = "82211NED"}
       ELSE {f \in DOMAIN sq_raw : f.dim = s /\ f.table = "86260NED"}

DimSteps == {"regiokenmerken", "regios", "gebruiksfunctie", "woningtype", "perioden"}

FactSteps == {"fact_doorlooptijden", "fact_woningen_pijplijn"}

FactInput(s) == LatestFile(IF s = "fact_doorlooptijden" THEN "doorlooptijden"
                           ELSE "woningen_pijplijn")

InputAbsent(s) ==
    \/ s \in DimSteps /\ DimInputs(s) = {}
    \/ s \in FactSteps /\ FactInput(s) \notin DOMAIN processed_dir

\* C14: a load step whose input file is absent ends the run with a
\* file-not-found error: the run does not go on past the step, and no
\* absent input is skipped with a warning.
C14_AbsentInputIsFatal ==
    /\ \A s \in DimSteps \cup FactSteps : InputAbsent(s) => ~Completed(s)
    /\ \A s \in DimSteps \cup FactSteps :
          (InputAbsent(s) /\ sq_pc = "raised" /\ RaisedAt = s) =>
             sq_exc.type = "FileNotFoundError"
    /\ \A i \in 1..Len(sq_log) : sq_log[i].level # "warning"

-----------------------------------------------------------------------------
(* Properties of the analyzer *)

\* the six analyses in the order of the run
SixAnalyses == <<"trend", "anova", "bottlenecks", "ttest", "correlations", "seasonal">>

\* the result files of an analysis that has returned
FilesOf(a) ==
    CASE a = "trend"        -> {"1_temporal_regression.csv"}
      [] a = "anova"        -> {"2_regional_anova.csv", "2_regional_anova_posthoc.csv"}
      [] a = "bottlenecks"  -> {"3_bottleneck_summary.csv", "3_bottleneck_top10_crisis.csv"}
      [] a = "ttest"        -> {"4_woningtype_ttest.csv"}
      [] a = "correlations" -> {"5_correlation_matrix.csv"}
      [] a = "seasonal"     -> {"6_seasonal_decomposition_doorlooptijd.csv",
                                "6_seasonal_decomposition_pijplijn.csv"}

\* the analyses of this run that have returned
Returned ==
    IF an_pc = "raised" /\ an_started # <<>> THEN Front(an_started) ELSE an_started

C15_State ==
    /\ Len(an_started) <= Len(SixAnalyses)
    /\ \A i \in 1..Len(an_started) : an_started[i] = SixAnalyses[i]
    /\ an_started # <<>> => df_doorloop # <<>> /\ df_pijplijn # <<>>
    /\ an_pc = "returned" => an_started = SixAnalyses /\ an_exc = NoError
    /\ an_pc = "raised" =>
          /\ an_exc # NoError
          /\ an_log # <<>>
          /\ Last(an_log).level = "error"
          /\ Last(an_log).about = an_exc.type
    /\ \A i \in 1..Len(Returned) : i < Len(SixAnalyses) =>
          \A f \in FilesOf(Returned[i]) :
             /\ f \in DOMAIN results_dir
             /\ results_dir[f] # <<>>
             /\ \E k \in 1..Len(an_written) : an_written[k] = f
    /\ \A k \in 1..Len(an_written) :
          an_written[k] \in DOMAIN results_dir /\ results_dir[an_written[k]] # <<>>

C15_Step ==
    /\ an_pc = "raised" => UNCHANGED <<an_started, an_written, results_dir, an_exc>>
    /\ an_started' # an_started =>
          /\ Len(an_started) < Len(SixAnalyses)
          /\ an_started' = Append(an_started, SixAnalyses[Len(an_started) + 1])
          /\ an_pc = SixAnalyses[Len(an_started) + 1]
    /\ \A f \in DOMAIN results_dir :
          (f \in DOMAIN results_dir' /\ results_dir'[f] # results_dir[f]) =>
             \E k \in (Len(an_written) + 1)..Len(an_written') : an_written'[k] = f
    /\ DOMAIN results_dir \subseteq DOMAIN results_dir'

\* C15: run_all_analyses loads the data, then starts the six analyses in the
\* order trend, ANOVA, bottlenecks, t-test, correlations, seasonal; the first
\* exception is logged and re-raised, nothing is started after it, and the
\* files the earlier analyses have written stay as they were written.
C15_SequentialAbort == []C15_State /\ [][C15_Step]_vars

\* the t-test raises after three analyses have written their files
C15_Witness ==
    /\ an_pc = "raised"
    /\ an_started = <<"trend", "anova", "bottlenecks", "ttest">>
    /\ Len(an_written) = 5
    /\ results_dir["3_bottleneck_top10_crisis.csv"] # <<>>

\* correlations has been run on the tables loaded
CorrelationsRan == Len(an_started) >= 5

\* the paired observations of the three pairs: the (region, year) groups with
\* a mean in both datasets, and the pijplijn rows with both values
PairColumns ==
    << {"Regio_Naam", "Jaar", "Bottleneck_2Jaar_Pct"},
       {"Bottleneck_2Jaar_Pct", "Vergunning_Fase_Pct"},
       {"Bottleneck_2Jaar_Pct", "Bouw_Fase_Pct"} >>

PairSecond == <<"Bottleneck_2Jaar_Pct", "Vergunning_Fase_Pct", "Bouw_Fase_Pct">>

PairedObservations(p) ==
    IF p = 1 THEN Cardinality(MergedGroups(df_doorloop[1], df_pijplijn[1]))
    ELSE Cardinality({i \in 1..Len(df_pijplijn[1].rows) :
                         \A c \in PairColumns[p] : df_pijplijn[1].rows[i][c] # NaN})

PairHasColumns(p) == PairColumns[p] \subseteq df_pijplijn[1].cols

Computable(p) == PairHasColumns(p) /\ PairedObservations(p) >= 3

WarnedAbout(p) ==
    \E i \in 1..Len(an_log) :
        an_log[i].level = "warning" /\ an_log[i].about = PairSecond[p]

CorrelationsRaised == an_pc = "raised" /\ Len(an_started) = 5

C16_SkipsAreLogged ==
    CorrelationsRan =>
       \A p \in 1..3 : (PairHasColumns(p) /\ PairedObservations(p) < 3) => WarnedAbout(p)

C16_OneRecordPerPair ==
    CorrelationsRan =>
       /\ CorrelationsRaised <=> (\A p \in 1..3 : ~Computable(p))
       /\ CorrelationsRaised => an_exc.type = "ValueError"
       /\ ~CorrelationsRaised =>
             /\ "5_correlation_matrix.csv" \in DOMAIN results_dir
             /\ Len(results_dir["5_correlation_matrix.csv"])
                   = Cardinality({p \in 1..3 : Computable(p)})
             /\ \A p \in 1..3 : Computable(p) =>
                   \E k \in 1..Len(results_dir["5_correlation_matrix.csv"]) :
                      /\ results_dir["5_correlation_matrix.csv"][k].variable_2 = PairSecond[p]
                      /\ (p = 1) = (results_dir["5_correlation_matrix.csv"][k].variable_1
                                       = "Doorlooptijd_Mediaan")

\* C16: analyze_correlations skips each pair with fewer than 3 paired
\* observations with a logged warning and without raising, writes one record
\* per pair that could be computed, and raises only when none could.
C16_CorrelationSkips == C16_SkipsAreLogged /\ C16_OneRecordPerPair

\* the rows of the doorlooptijden table loaded that have a median
MedianRows ==
    {i \in 1..Len(df_doorloop[1].rows) : df_doorloop[1].rows[i].Doorlooptijd_Mediaan # NaN}

\* the calendar years with an observation
YearsObserved == {df_doorloop[1].rows[i].Jaar : i \in MedianRows}

\* the regions with at least 2 observations
RegionsWithTwo ==
    {r \in {df_doorloop[1].rows[i].Regio_Naam : i \in MedianRows} \ {NaN} :
        Cardinality({i \in MedianRows : df_doorloop[1].rows[i].Regio_Naam = r}) >= 2}

\* the samples of a housing-type group: the label holds the word, whatever
\* its case, and is not the aggregate
Samples(word) ==
    {i \in MedianRows :
        /\ df_doorloop[1].rows[i].Woningtype_Naam # NaN
        /\ df_doorloop[1].rows[i].Woningtype_Naam # <<Totaal>>
        /\ ContainsNoCase(df_doorloop[1].rows[i].Woningtype_Naam[1], word)}

\* analysis a, the k-th of the run, has been started
Started(k) == Len(an_started) >= k

\* the k-th analysis has raised a ValueError with this message, and has
\* written none of its files
RaisedValueError(k, msg, files) ==
    /\ an_pc = "raised"
    /\ Len(an_started) = k
    /\ an_exc.type = "ValueError"
    /\ an_exc.msg = msg
    /\ \A i \in 1..Len(an_written) : an_written[i] \notin files

\* C17: a test with too little data raises a ValueError that names the
\* shortfall and writes no result file: the trend with fewer than 2 yearly
\* observations, the ANOVA with fewer than 2 regions of at least 2
\* observations, the t-test with fewer than 2 samples in either group.
C17_TooLittleData ==
    /\ (Started(1) /\ Cardinality(YearsObserved) < 2) =>
          RaisedValueError(1, "Not enough yearly observations for regression",
                           {"1_temporal_regression.csv"})
    /\ (Started(2) /\ Cardinality(RegionsWithTwo) < 2) =>
          RaisedValueError(2, "Need at least 2 regions with sufficient data for ANOVA",
                           {"2_regional_anova.csv", "2_regional_anova_posthoc.csv"})
    /\ (Started(4) /\ (Cardinality(Samples(Eengezins)) < 2
                          \/ Cardinality(Samples(Meergezins)) < 2)) =>
          RaisedValueError(4, "Not enough samples for t-test", {"4_woningtype_ttest.csv"})

\* the t-test raises for one group of a single sample, the other group
\* having two
C17_Witness ==
    /\ an_pc = "raised"
    /\ an_started = <<"trend", "anova", "bottlenecks", "ttest">>
    /\ an_exc.msg = "Not enough samples for t-test"
    /\ Cardinality(Samples(Eengezins)) >= 2
    /\ Cardinality(Samples(Meergezins)) = 1
    /\ "4_woningtype_ttest.csv" \notin DOMAIN results_dir

\* the values of a housing-type group
SampleValues(word) == {df_doorloop[1].rows[i].Doorlooptijd_Mediaan[1] : i \in Samples(word)}

\* the ANOVA has returned in this run
AnovaWritten ==
    /\ Len(Returned) >= 2
    /\ \E i \in 1..Len(an_written) : an_written[i] = "2_regional_anova_posthoc.csv"

\* the number of observations of a region: rows with a region and a median
RegionObservations(region) ==
    Len(Rows(DropNa(df_doorloop[1], {"Doorlooptijd_Mediaan", "Regio_Naam"}),
             LAMBDA r : r.Regio_Naam = region))

\* the regions whose observations enter some statistic the ANOVA reports
ReportedRegions ==
    LET anova == results_dir["2_regional_anova.csv"][1]
        tukey == results_dir["2_regional_anova_posthoc.csv"][1]
    IN  anova.f_statistic \cup anova.p_value \cup anova.eta_squared \cup tukey.groups

\* C23: in the regional-difference analysis the observations of a region
\* with fewer than 2 observations enter no reported statistic: not the F
\* statistic, the p-value, eta-squared or the Tukey HSD table.
C23_SmallRegionsExcluded ==
    AnovaWritten => \A region \in ReportedRegions : RegionObservations(region) >= 2

\* decompose_seasonal, the sixth analysis of the run, has ended
SeasonalEnded == Len(an_started) = 6 /\ an_pc \in {"returned", "raised"}

\* the observations of a series: the (year, period) pairs that have a value
Observations(table, period_col, value_col) ==
    {<<r.Jaar, r[period_col]>> :
        r \in {table.rows[i] : i \in {k \in 1..Len(table.rows) :
                                          table.rows[k][value_col] # NaN}}}

\* the file was written by this run and has one row per observation, with
\* Observed filled and the three components undefined below the minimum
\* number of observations and defined from it on
DecompositionTable(file, obs, minimum) ==
    LET recs == results_dir[file]
    IN  /\ \E i \in 1..Len(an_written) : an_written[i] = file
        /\ Len(recs) = Cardinality(obs)
        /\ {<<recs[i].Jaar, recs[i].Period>> : i \in 1..Len(recs)} = obs
        /\ \A i \in 1..Len(recs) :
              /\ recs[i].Observed # NaN
              /\ IF Cardinality(obs) < minimum
                    THEN recs[i].Trend = NaN /\ recs[i].Seasonal = NaN
                         /\ recs[i].Residual = NaN
                    ELSE recs[i].Trend # NaN /\ recs[i].Seasonal # NaN
                         /\ recs[i].Residual # NaN

\* C24: with fewer than 9 quarterly or fewer than 25 monthly observations
\* decompose_seasonal raises no error and writes one row per observation with
\* Observed filled and Trend, Seasonal and Residual undefined; with at least
\* that many observations the three components are defined on every row.
C24_ShortSeries ==
    LET dl == df_doorloop[1]
        pj == df_pijplijn[1]
        dl_ok == {"Jaar", "Kwartaal", "Periode_Naam", "Doorlooptijd_Mediaan"} \subseteq dl.cols
        pj_ok == {"Jaar", "Maand", "Periode_Naam", "Pijplijn_Totaal"} \subseteq pj.cols
    IN  /\ (SeasonalEnded /\ dl_ok) =>
               DecompositionTable("6_seasonal_decomposition_doorlooptijd.csv",
                                  Observations(dl, "Kwartaal", "Doorlooptijd_Mediaan"), 9)
        /\ (SeasonalEnded /\ dl_ok /\ pj_ok) =>
               /\ an_pc = "returned"
               /\ DecompositionTable("6_seasonal_decomposition_pijplijn.csv",
                                     Observations(pj, "Maand", "Pijplijn_Totaal"), 25)

\* a run with 8 quarterly observations: eight rows without components
C24_Witness ==
    /\ an_pc = "returned"
    /\ Len(results_dir["6_seasonal_decomposition_doorlooptijd.csv"]) = 8
    /\ \A i \in 1..8 :
          LET rec == results_dir["6_seasonal_decomposition_doorlooptijd.csv"][i]
          IN  rec.Observed # NaN /\ rec.Trend = NaN
    /\ \E i \in 1..Len(an_log) : an_log[i].msg = "Insufficient data for STL"

\* quantify_bottlenecks, the third analysis of the run, has ended on a table
\* that has the columns it reads
BottlenecksEnded ==
    /\ Len(an_started) >= 3
    /\ an_pc = "raised" => Len(an_started) > 3 \/ an_exc.msg # "Missing columns"
    /\ an_pc # "bottlenecks"

\* a is a smaller mean than b
SmallerMean(a, b) == a # NaN /\ b # NaN /\ a[1] < b[1]

\* C25: Rank is a bijection from the n regions onto 1..n, a smaller rank
\* never has a smaller mean 2-year bottleneck percentage than a larger rank,
\* and the top-10 table is the regions ranked 1..min(10, n) in rank order.
C25_BottleneckRanking ==
    BottlenecksEnded =>
        LET regions == {df_pijplijn[1].rows[i].Regio_Naam :
                           i \in 1..Len(df_pijplijn[1].rows)} \ {NaN}
            n == Cardinality(regions)
            summary == results_dir["3_bottleneck_summary.csv"]
            top10 == results_dir["3_bottleneck_top10_crisis.csv"]
        IN  /\ Len(summary) = n
            /\ {summary[i].Regio_Naam : i \in 1..n} = regions
            /\ {summary[i].Rank : i \in 1..n} = 1..n
            /\ \A i, j \in 1..n :
                  summary[i].Rank < summary[j].Rank =>
                     ~SmallerMean(summary[i].Bottleneck_2Jaar_Pct_Avg,
                                  summary[j].Bottleneck_2Jaar_Pct_Avg)
            /\ \E i \in 1..Len(an_written) : an_written[i] = "3_bottleneck_top10_crisis.csv"
            /\ Len(top10) = (IF n < 10 THEN n ELSE 10)
            /\ \A k \in 1..Len(top10) :
                  /\ top10[k].Rank = k
                  /\ \E i \in 1..n : summary[i].Rank = k
                                       /\ summary[i].Regio_Naam = top10[k].Regio_Naam

\* the record compare_woningtype has written
TTestRecord == results_dir["4_woningtype_ttest.csv"][1]

TTestWritten ==
    /\ Len(an_started) >= 4
    /\ \E i \in 1..Len(an_written) : an_written[i] = "4_woningtype_ttest.csv"

\* C18: two groups of at least 2 samples each, with no variance within a
\* group and different means, get an effect size in the 'large' bin.
C18_ZeroVarianceIsLarge ==
    (/\ TTestWritten
     /\ Cardinality(Samples(Eengezins)) >= 2
     /\ Cardinality(Samples(Meergezins)) >= 2
     /\ Cardinality(SampleValues(Eengezins)) = 1
     /\ Cardinality(SampleValues(Meergezins)) = 1
     /\ SampleValues(Eengezins) # SampleValues(Meergezins))
    => TTestRecord.effect = "large effect size"

-----------------------------------------------------------------------------
(* Properties of the SQL loader: what a load leaves in a table *)

\* the latest of a set of raw files of one table
Latest(files) == CHOOSE f \in files : \A g \in files : g.ts <= f.ts

\* the raw files a dimension step reads: the latest one; for gebruiksfunctie
\* the latest of table 86260NED when there is one; for perioden the two
\* first in descending order of the path
FilesRead(s) ==
    LET all == DimInputs(s)
        t1  == {f \in all : f.table = "86260NED"}
        t2  == {f \in all : f.table = "82211NED"}
    IN  IF all = {} THEN {}
        ELSE IF s = "perioden"
           THEN IF t1 = {} THEN {Latest(t2)} \cup (IF t2 \ {Latest(t2)} = {} THEN {}
                                                   ELSE {Latest(t2 \ {Latest(t2)})})
                ELSE IF t1 \ {Latest(t1)} # {} THEN {Latest(t1), Latest(t1 \ {Latest(t1)})}
                ELSE {Latest(t1)} \cup (IF t2 = {} THEN {} ELSE {Latest(t2)})
           ELSE IF t1 # {} THEN {Latest(t1)} ELSE {Latest(t2)}

\* the keys of the files read
KeysRead(s) == UNION {{sq_raw[f][i].Key : i \in 1..Len(sq_raw[f])} : f \in FilesRead(s)}

DimTable(s) == db[IF s = "regiokenmerken" THEN "dim_regiokenmerken"
                  ELSE IF s = "regios" THEN "dim_regios"
                  ELSE IF s = "gebruiksfunctie" THEN "dim_gebruiksfunctie"
                  ELSE IF s = "woningtype" THEN "dim_woningtype"
                  ELSE "dim_perioden"]

FactTable(s) == db[s]

\* a dimension table holds the rows of the files read: one row for each key,
\* with the title a file read gives it
HoldsDimension(s) ==
    /\ {DimTable(s)[i].code : i \in 1..Len(DimTable(s))} = KeysRead(s)
    /\ Len(DimTable(s)) = Cardinality(KeysRead(s))
    /\ \A i \in 1..Len(DimTable(s)) :
          \E f \in FilesRead(s) : \E k \in 1..Len(sq_raw[f]) :
             /\ sq_raw[f][k].Key = DimTable(s)[i].code
             /\ sq_raw[f][k].Title = DimTable(s)[i].naam

\* a fact table holds the rows of the "latest" file, in its order
HoldsFact(s) ==
    /\ Len(FactTable(s)) = Len(processed_dir[FactInput(s)].rows)
    /\ \A i \in 1..Len(FactTable(s)) :
          /\ FactTable(s)[i].jaar = processed_dir[FactInput(s)].rows[i].Jaar
          /\ \A c \in DOMAIN FactTable(s)[i] : c \in doorlooptijden_db_columns
                                                  \cup pijplijn_db_columns

\* a run after the first has ended
RunRepeated == sq_runs >= 2 /\ sq_pc \in {"returned", "raised"}

\* C19: a table the run has loaded holds the rows of the files read in this
\* run and nothing else, whatever the database held before; a second run on
\* the same inputs leaves the database as the first run left it.
C19_FullReplace ==
    /\ \A s \in DimSteps : (Completed(s) /\ ~InputAbsent(s)) => HoldsDimension(s)
    /\ \A s \in FactSteps : (Completed(s) /\ ~InputAbsent(s)) => HoldsFact(s)
    /\ RunRepeated => db = db_first[1]

\* a second run has returned with every table loaded, the perioden table
\* from two files
C19_Witness ==
    /\ sq_runs = 2
    /\ sq_pc = "returned"
    /\ \A s \in DimSteps \cup FactSteps : ~InputAbsent(s)
    /\ Cardinality(FilesRead("perioden")) = 2
    /\ Len(db["dim_perioden"]) >= 2
    /\ Len(db["fact_doorlooptijden"]) >= 1

-----------------------------------------------------------------------------
(* The extraction main workflow *)

\* main has ended without completing: an extraction raised, the run was
\* interrupted or the prompt was declined
MainFailed == em_pc \in {"raised", "interrupted", "cancelled"}

C30_State ==
    /\ em_cleanup => em_done = MainExtractions
    /\ ~em_cleanup => removed = {}
    /\ MainFailed => ~em_cleanup /\ removed = {}
    /\ em_pc = "complete" =>
          /\ WrittenSet \subseteq raw_dir
          /\ \A f \in WrittenSet : ExtractTimestamp(f) = ex_timestamp

\* a step that is not the cleanup deletes no file, and the cleanup is a
\* step taken with both extractions returned
C30_Step ==
    /\ ~em_cleanup' => raw_dir \subseteq raw_dir'
    /\ (em_cleanup' /\ ~em_cleanup) =>
          (ex_pc = "returned" /\ em_done' = MainExtractions)

C30_Interrupted ==
    /\ em_pc = "interrupted"
    /\ ex_written # <<>>
    /\ ExtractionFiles(<<20260220, 205140>>) \subseteq raw_dir

====
